---- MODULE Spec2Model ----
(***************************************************************************)
(* Client-side realtime synchronisation and session-state layer of the     *)
(* messaging client: message stream sync (useChat), chat directory sync    *)
(* (useChats), the session/identity manager (AuthProvider) and the         *)
(* wellbeing session tracker (WellbeingProvider), over a path-addressed     *)
(* realtime store.                                                         *)
(*                                                                         *)
(* The store is modelled by its committed contents.  A write issued by the *)
(* client is in flight until the store acknowledges it; the acknowledging  *)
(* step either commits the value or rejects the write, and the writes of   *)
(* the client are acknowledged in the order they were issued.  A           *)
(* subscription delivers snapshots of the committed contents.  Time is the *)
(* variable now, read by Date.now().                                        *)
(***************************************************************************)
EXTENDS Integers, Sequences, FiniteSets, TLC

(***************************************************************************)
(* Optional values: a missing field (undefined / null) is the empty        *)
(* sequence, a present one a one-element sequence.                         *)
(***************************************************************************)
None == <<>>

Some(v) == <<v>>

IsSome(o) == o # None

Get(o) == o[1]

(***************************************************************************)
(* Text.  A text is a sequence of one-character strings.                   *)
(***************************************************************************)
UpperLetters == <<"A","B","C","D","E","F","G","H","I","J","K","L","M",
                  "N","O","P","Q","R","S","T","U","V","W","X","Y","Z">>

LowerLetters == <<"a","b","c","d","e","f","g","h","i","j","k","l","m",
                  "n","o","p","q","r","s","t","u","v","w","x","y","z">>

Digits == {"0","1","2","3","4","5","6","7","8","9"}

Range(s) == { s[i] : i \in DOMAIN s }

\* String.prototype.toLowerCase on one character.
ToLowerChar(c) ==
    IF c \in Range(UpperLetters)
    THEN LowerLetters[CHOOSE i \in DOMAIN UpperLetters : UpperLetters[i] = c]
    ELSE c

ToLower(s) == [i \in DOMAIN s |-> ToLowerChar(s[i])]

\* White space as String.prototype.trim strips it.
IsSpace(c) == c \in {" ", "\t", "\n"}

RECURSIVE TrimStart(_)
TrimStart(s) ==
    IF s # <<>> /\ IsSpace(Head(s)) THEN TrimStart(Tail(s)) ELSE s

RECURSIVE TrimEnd(_)
TrimEnd(s) ==
    IF s # <<>> /\ IsSpace(s[Len(s)]) THEN TrimEnd(SubSeq(s, 1, Len(s) - 1)) ELSE s

\* text.trim()
Trim(s) == TrimEnd(TrimStart(s))

\* s.substring(0, n)
Substring0(s, n) == SubSeq(s, 1, IF Len(s) < n THEN Len(s) ELSE n)

\* \w of the regular expressions: [A-Za-z0-9_].
IsWordChar(c) == c \in Range(UpperLetters) \cup Range(LowerLetters) \cup Digits \cup {"_"}

\* The pattern text w occurs in s starting at position i.
MatchAt(s, w, i) ==
    /\ i >= 1
    /\ i + Len(w) - 1 <= Len(s)
    /\ \A k \in 1..Len(w) : s[i + k - 1] = w[k]

\* \b between positions i-1 and i of s (i in 1..Len(s)+1).
WordBoundary(s, i) ==
    LET before == i - 1 >= 1 /\ i - 1 <= Len(s) /\ IsWordChar(s[i - 1])
        after  == i >= 1 /\ i <= Len(s) /\ IsWordChar(s[i])
    IN  before # after

\* /\b(w1|w2|...)\b/i tested on s.
HasWord(s, words) ==
    LET t == ToLower(s)
    IN  \E w \in words : \E i \in 1..Len(t) :
            MatchAt(t, w, i) /\ WordBoundary(t, i) /\ WordBoundary(t, i + Len(w))

\* /w1|w2|.../i tested on s.
HasFragment(s, words) ==
    LET t == ToLower(s)
    IN  \E w \in words : \E i \in 1..Len(t) : MatchAt(t, w, i)

\* /[...]/ tested on s: some character of the class occurs.
HasChar(s, class) == \E i \in 1..Len(s) : s[i] \in class

ToxicWords1 ==
    { <<"k","i","l","l">>,
      <<"d","i","e">>,
      <<"h","a","t","e">>,
      <<"s","t","u","p","i","d">>,
      <<"i","d","i","o","t">>,
      <<"d","u","m","b">>,
      <<"l","o","s","e","r">>,
      <<"u","g","l","y">>,
      <<"f","a","t">>,
      <<"r","e","t","a","r","d">> }

ToxicWords2 ==
    { <<"f","u","c","k">>,
      <<"s","h","i","t">>,
      <<"d","a","m","n">>,
      <<"a","s","s">>,
      <<"b","i","t","c","h">> }

ToxicFragments ==
    { <<"t","h","r","e","a","t","e","n","i","n","g">>,
      <<"h","a","r","a","s","s">>,
      <<"b","u","l","l","y">> }

HappyWords ==
    { <<"h","a","p","p","y">>,
      <<"j","o","y">>,
      <<"e","x","c","i","t","e","d">>,
      <<"a","m","a","z","i","n","g">>,
      <<"w","o","n","d","e","r","f","u","l">>,
      <<"g","r","e","a","t">>,
      <<"a","w","e","s","o","m","e">>,
      <<"l","o","v","e">>,
      <<"f","a","n","t","a","s","t","i","c">>,
      <<"b","r","i","l","l","i","a","n","t">> }

SadWords ==
    { <<"s","a","d">>,
      <<"d","e","p","r","e","s","s","e","d">>,
      <<"d","o","w","n">>,
      <<"l","o","n","e","l","y">>,
      <<"c","r","y","i","n","g">>,
      <<"m","i","s","s">>,
      <<"h","u","r","t">>,
      <<"h","e","a","r","t","b","r","o","k","e","n">>,
      <<"d","i","s","a","p","p","o","i","n","t","e","d">> }

AngryWords ==
    { <<"a","n","g","r","y">>,
      <<"m","a","d">>,
      <<"f","u","r","i","o","u","s">>,
      <<"h","a","t","e">>,
      <<"a","n","n","o","y","e","d">>,
      <<"f","r","u","s","t","r","a","t","e","d">>,
      <<"p","i","s","s","e","d">>,
      <<"r","a","g","e">> }

StressedWords ==
    { <<"s","t","r","e","s","s","e","d">>,
      <<"o","v","e","r","w","h","e","l","m","e","d">>,
      <<"e","x","h","a","u","s","t","e","d">>,
      <<"t","i","r","e","d">>,
      <<"b","u","r","n","e","d"," ","o","u","t">>,
      <<"c","a","n","'","t"," ","c","o","p","e">>,
      <<"t","o","o"," ","m","u","c","h">> }

AnxiousWords ==
    { <<"a","n","x","i","o","u","s">>,
      <<"w","o","r","r","i","e","d">>,
      <<"n","e","r","v","o","u","s">>,
      <<"s","c","a","r","e","d">>,
      <<"a","f","r","a","i","d">>,
      <<"p","a","n","i","c">>,
      <<"a","n","x","i","e","t","y">>,
      <<"f","e","a","r">> }

\* The emoji character classes of emotionPatterns; each emoji is one character
\* of a text, written here by name.
HappyEmoji == {":smile:", ":grin:", ":smiley:", ":hearts:", ":heart:", ":two_hearts:", ":tada:", ":sparkles:"}

SadEmoji == {":cry:", ":sob:", ":pensive:", ":broken_heart:", ":disappointed:"}

AngryEmoji == {":angry:", ":rage:", ":cursing:"}

StressedEmoji == {":tired:", ":weary:", ":triumph:"}

AnxiousEmoji == {":cold_sweat:", ":fearful:", ":scream:"}

\* analyzeEmotion: the first emotion, in the order of emotionPatterns, one of
\* whose patterns matches; neutral otherwise.
AnalyzeEmotion(text) ==
    IF HasWord(text, HappyWords) \/ HasChar(text, HappyEmoji) THEN "happy"
    ELSE IF HasWord(text, SadWords) \/ HasChar(text, SadEmoji) THEN "sad"
    ELSE IF HasWord(text, AngryWords) \/ HasChar(text, AngryEmoji) THEN "angry"
    ELSE IF HasWord(text, StressedWords) \/ HasChar(text, StressedEmoji) THEN "stressed"
    ELSE IF HasWord(text, AnxiousWords) \/ HasChar(text, AnxiousEmoji) THEN "anxious"
    ELSE "neutral"

\* detectToxicity(text).isToxic: some toxic pattern matches the lower-cased text.
DetectToxicity(text) ==
    LET lowerText == ToLower(text)
    IN  \/ HasWord(lowerText, ToxicWords1)
        \/ HasWord(lowerText, ToxicWords2)
        \/ HasFragment(lowerText, ToxicFragments)

(***************************************************************************)
(* Bounds of the model and constants of the program.                       *)
(***************************************************************************)
\* At most MaxChats chat records exist.
MaxChats == 2

\* At most MaxRuns index callbacks of useChats await their reads at a time.
MaxRuns == 2

\* Message keys the store hands out (push) are 1..MaxMsgs, in this order.
MaxMsgs == 2

\* The delete specification stores at most MaxDeletable messages.
MaxDeletable == 1

\* The clock runs from 1 to MaxTime.
MaxTime == 2

\* useState(120) and dailyUsageLimit || 120, in minutes
DefaultDailyLimit == 120

\* sessionDuration >= 30 && timeSinceLastReminder >= 30, in minutes
BreakInterval == 30

\* Date.now() at the start of the session, in minutes since the epoch.
SessionEpoch == 100

\* The wellbeing clock runs for MaxMinutes minutes.
MaxMinutes == 62

\* users/{uid}/todayUsage as the usage specification finds it.
StoredUsage == 119

\* The usage timer stops counting at MaxUsage.
MaxUsage == 122

\* At most MaxLimitToasts limit toasts are raised.
MaxLimitToasts == 2

\* At most MaxTypingWrites typing writes are in flight.
MaxTypingWrites == 1

\* text.trim().substring(0, 50)
PreviewLen == 50

\* limitToLast(100)
MessageLimit == 100

Uids == {"A", "B"}

NoUser == "null"

\* Chat keys the store hands out (push) are 1..MaxChats, in this order.
ChatIds == 1..MaxChats

\* chatId: string | null
NoChat == 0

MsgIds == 1..MaxMsgs

\* Timestamps of the summary writes of other participants.
PeerTimes == {1, 2}

\* Inputs of send.
TextHello == <<" ","H","e","l","l","o","\n">>

TextToxic == <<"y","o","u"," ","a","r","e"," ","a","n"," ","i","d","i","o","t">>

TextBlank == <<" ","\t">>

TextEmpty == <<>>

TextLong == [i \in 1..(PreviewLen + 2) |-> IF i = 1 THEN " " ELSE "a"]

TextHappy == <<"g","r","e","a","t","!">>

\* The texts send is given with a chat summary to follow.
Texts == {TextHello, TextToxic, TextBlank, TextEmpty, TextLong}

AllTexts == Texts \cup {TextHappy}

(***************************************************************************)
(* Records of the store.  A record exists when one of its fields is set.   *)
(***************************************************************************)
\* chats/{chatId}/messages/{messageId}
NoMsg ==
    [senderId |-> None, senderName |-> None, text |-> None, timestamp |-> None,
     emotion |-> None, isToxic |-> None, isDeleted |-> None, deletedAt |-> None]

\* chats/{chatId}, without its messages and typing children
NoChatRec ==
    [participants |-> None, isGroup |-> None, groupName |-> None,
     lastMessage |-> None, lastMessageTime |-> None, createdAt |-> None]

\* users/{uid}
NoProfile ==
    [uid |-> None, displayName |-> None, status |-> None, lastSeen |-> None,
     safetyMode |-> None, dailyUsageLimit |-> None, todayUsage |-> None]

\* A direct chat as createChat writes it.
\* Variant of DirectChat: the participants are listed other first.
DirectChatReversed(a, b, t) ==
    [NoChatRec EXCEPT !.participants = Some(<<b, a>>), !.isGroup = Some(FALSE),
                      !.createdAt = Some(t)]

DirectChat(a, b, t) ==
    [NoChatRec EXCEPT !.participants = Some(<<a, b>>), !.isGroup = Some(FALSE),
                      !.createdAt = Some(t)]

\* A group chat as createGroupChat writes it.
GroupChat(members, name, t) ==
    [NoChatRec EXCEPT !.participants = Some(members), !.isGroup = Some(TRUE),
                      !.groupName = Some(name), !.createdAt = Some(t)]

\* The profile record signUp writes.
\* Variant of InitialProfile: the record carries no usage limit.
InitialProfileWithoutLimit(u, name) ==
    [uid |-> Some(u), displayName |-> Some(name), status |-> Some("online"),
     lastSeen |-> None, safetyMode |-> Some(FALSE), dailyUsageLimit |-> None,
     todayUsage |-> Some(0)]

InitialProfile(u, name) ==
    [uid |-> Some(u), displayName |-> Some(name), status |-> Some("online"),
     lastSeen |-> None, safetyMode |-> Some(FALSE), dailyUsageLimit |-> Some(120),
     todayUsage |-> Some(0)]

VARIABLES
    now,          \* Date.now()
    user,         \* AuthProvider: the current user's id, or NoUser
    userProfile,  \* AuthProvider: the local profile snapshot (optional)
    chatId,       \* useChat: the chat the hook is given, or NoChat
    dbMessages,   \* store: chats/{c}/messages/{k}
    dbChats,      \* store: chats/{c} (summary fields)
    dbTyping,     \* store: chats/{c}/typing/{uid}
    nextKey,      \* store: the next key push() generates
    msgSub,       \* useChat: the chat whose messages are subscribed, or NoChat
    msgDirty,     \* a snapshot of the subscribed messages awaits delivery
    messages,     \* useChat: the published message list
    loading,      \* useChat: loading flag
    send,         \* sendMessage in flight
    del,          \* deleteMessage in flight
    writeQueue,   \* the operations awaiting a write, in the order of issue
    dbUserChats,  \* store: userChats/{uid}, the set of chat ids marked true
    nextChatKey,  \* store: the next key push() generates below chats
    idxSub,       \* useChats: the user whose index is subscribed, or NoUser
    idxDirty,     \* a snapshot of the subscribed index awaits delivery
    runs,         \* useChats: the index callbacks awaiting their one-shot reads
    chats,        \* useChats: the published chat list
    chatsLoading, \* useChats: loading flag
    create,       \* createChat in flight
    isConfigured, \* AuthProvider: the Firebase configuration is usable
    authUser,     \* identity provider: the user of the open session, or NoUser
    authPending,  \* an auth state change awaits delivery to the callback
    authLoading,  \* AuthProvider: loading flag
    dbUsers,      \* store: users/{uid}
    profSub,      \* the users whose profile subscription is open
    profDirty,    \* the users whose profile snapshot awaits delivery
    disconnectHooks, \* store: the users with registered disconnect writes
    presence,     \* the auth state callback in flight
    logout,       \* logout in flight
    sessionStartTime,  \* WellbeingProvider: start of the session (optional)
    todayUsage,        \* WellbeingProvider: minutes used today
    dailyLimit,        \* WellbeingProvider: the daily limit in minutes
    showBreakReminder, \* WellbeingProvider: the break reminder is shown
    lastBreakReminder, \* WellbeingProvider: time of the last reminder, 0 at first
    checkElapsed,      \* the period of the running break check timer has elapsed
    breakToasts,       \* the times the break toast was raised
    limitToasts,       \* the number of limit toasts raised
    usageWrite,        \* the todayUsage write in flight (optional)
    typDirty,     \* a snapshot of the subscribed typing map awaits delivery
    isTyping,     \* useChat: the published typing ids
    typingWrites, \* the setTypingStatus writes in flight, in the order of issue
    accounts,     \* identity provider: the account of each uid
    signup,       \* signUp in flight
    google,       \* signInWithGoogle in flight
    update,       \* updateUserProfile in flight
    authSub,      \* AuthProvider: its mount effect and auth state subscription
    typingTimer   \* ChatView: the pending typing timeout (optional)

authVars == <<isConfigured, authUser, authPending, authLoading, dbUsers, profSub, profDirty,
              disconnectHooks, presence, logout>>

wellVars == <<sessionStartTime, todayUsage, dailyLimit, showBreakReminder, lastBreakReminder,
              checkElapsed, breakToasts, limitToasts, usageWrite>>

typVars == <<typDirty, isTyping, typingWrites>>

acctVars == <<accounts, signup, google, update>>

viewVars == <<authSub, typingTimer>>

sharedVars == <<now, user, userProfile, authVars, wellVars, typVars, acctVars, viewVars>>

storeMsgVars == <<dbMessages, dbChats, dbTyping, nextKey>>

hookVars == <<chatId, msgSub, msgDirty, messages, loading>>

msgVars == <<storeMsgVars, hookVars, send, del, writeQueue>>

dirVars == <<dbUserChats, nextChatKey, idxSub, idxDirty, runs, chats, chatsLoading, create>>

\* What the message stream's operations leave alone.
outsideMsgVars == <<dirVars>>

vars == <<sharedVars, msgVars, dirVars>>

(***************************************************************************)
(* Message Stream Sync (useChat).                                          *)
(***************************************************************************)
\* value || fallback on an optional string ('' is falsy).
OrElse(o, fallback) == IF IsSome(o) /\ Get(o) # "" THEN Get(o) ELSE fallback

\* !!m.isDeleted
Truthy(o) == IsSome(o) /\ Get(o) = TRUE

MsgExists(c, k) == dbMessages[c][k] # NoMsg

\* orderByChild('timestamp'): j sorts after k (a missing timestamp sorts
\* first, equal timestamps sort by key).
SortsAfter(c, j, k) ==
    LET tj == dbMessages[c][j].timestamp
        tk == dbMessages[c][k].timestamp
    IN  \/ IsSome(tj) /\ ~IsSome(tk)
        \/ IsSome(tj) /\ IsSome(tk) /\ Get(tj) > Get(tk)
        \/ tj = tk /\ j > k

\* The keys the query of useChat returns: the last MessageLimit in that order.
QueryKeys(c) ==
    LET all == { k \in MsgIds : MsgExists(c, k) }
    IN  { k \in all : Cardinality({ j \in all : SortsAfter(c, j, k) }) < MessageLimit }

\* A set of keys as the sequence Object.entries enumerates it (key order).
RECURSIVE KeySeq(_)
KeySeq(S) ==
    IF S = {} THEN <<>>
    ELSE LET m == CHOOSE x \in S : \A y \in S : x <= y
         IN  <<m>> \o KeySeq(S \ {m})

\* { id, ...msg }
Entry(c, k) == [id |-> k] @@ dbMessages[c][k]

\* Variant of VisibleMessages: soft-deleted messages are not filtered out.
VisibleMessagesUnfiltered(c) ==
    [i \in DOMAIN KeySeq(QueryKeys(c)) |-> Entry(c, KeySeq(QueryKeys(c))[i])]

\* Variant of VisibleMessages: a message counts as deleted by its deletedAt.
VisibleMessagesByDeletedAt(c) ==
    SelectSeq([i \in DOMAIN KeySeq(QueryKeys(c)) |-> Entry(c, KeySeq(QueryKeys(c))[i])],
              LAMBDA m : ~IsSome(m.deletedAt))

\* messageList.filter((m) => !m.isDeleted)
VisibleMessages(c) ==
    SelectSeq([i \in DOMAIN KeySeq(QueryKeys(c)) |-> Entry(c, KeySeq(QueryKeys(c))[i])],
              LAMBDA m : ~Truthy(m.isDeleted))

\* A committed write below chats/{c}/messages reaches the open subscription.
Notify(c) == msgDirty' = (msgDirty \/ msgSub = c)

\* A committed write below chats/{c}/typing reaches the open subscription.
NotifyTyping(c) == typDirty' = (typDirty \/ msgSub = c)

\* Operation op issues a write / is acknowledged and issues its next write /
\* is acknowledged and ends.
Issue(op) == writeQueue' = Append(writeQueue, op)

\* Variant of AckThenIssue: the next write is issued without the
\* acknowledgement of the one before.
IssueUnawaited(op) == writeQueue' = Append(writeQueue, op)

AckThenIssue(op) == writeQueue # <<>> /\ Head(writeQueue) = op /\ writeQueue' = Append(Tail(writeQueue), op)

AckLast(op) == writeQueue # <<>> /\ Head(writeQueue) = op /\ writeQueue' = Tail(writeQueue)

IdleSend ==
    [pc |-> "idle", chat |-> NoChat, uid |-> NoUser, text |-> <<>>, key |-> 0,
     message |-> NoMsg, lastTime |-> 0, result |-> "none",
     screened |-> FALSE, handler |-> FALSE, sending |-> FALSE, toast |-> "none",
     refused |-> FALSE, overlap |-> FALSE]

IdleDel == [pc |-> "idle", chat |-> NoChat, id |-> 0, at |-> 0, result |-> "none"]

\* The clock advances.
Tick ==
    /\ now < MaxTime
    /\ now' = now + 1
    /\ UNCHANGED <<user, userProfile, typVars, acctVars, viewVars, authVars, wellVars, msgVars, dirVars>>

\* onValue(messagesRef, ...): the subscription delivers a snapshot.
MessagesSnapshot ==
    /\ msgSub # NoChat
    /\ msgDirty
    /\ messages' = VisibleMessages(msgSub)
    /\ loading' = FALSE
    /\ msgDirty' = FALSE
    /\ UNCHANGED <<sharedVars, storeMsgVars, chatId, msgSub, send, del, writeQueue, outsideMsgVars>>

\* Variant of LastMessagePreview: the text is cut without being trimmed.
LastMessagePreviewUntrimmed(text) == Substring0(text, PreviewLen)

\* text.trim().substring(0, 50)
LastMessagePreview(text) == Substring0(Trim(text), PreviewLen)

\* The pure functions of sendMessage, tabulated over the input texts.
TrimOf == [t \in AllTexts |-> Trim(t)]

PreviewOf == [t \in AllTexts |-> LastMessagePreview(t)]

ToxicityOf == [t \in AllTexts |-> DetectToxicity(t)]

EmotionOf == [t \in AllTexts |-> AnalyzeEmotion(t)]

\* The message record sendMessage builds.
NewMessage(text) ==
    [NoMsg EXCEPT !.senderId = Some(user),
                  !.senderName = Some(OrElse(Get(userProfile).displayName, "User")),
                  !.text = Some(TrimOf[text]),
                  !.timestamp = Some(now),
                  !.emotion = Some(EmotionOf[text]),
                  !.isToxic = Some(FALSE)]

\* Variant of SendIgnored: blank text is let through.
SendIgnoredUnlessBlank(text) == chatId = NoChat \/ user = NoUser \/ userProfile = None

\* if (!chatId || !user || !userProfile || !text.trim()) return;
SendIgnored(text) ==
    chatId = NoChat \/ user = NoUser \/ userProfile = None \/ TrimOf[text] = <<>>

\* Variant of HandleSendIgnored: the sending flag is not consulted.
HandleSendIgnoredIfBlank(text) == TrimOf[text] = <<>>

\* if (!newMessage.trim() || sending) return;
HandleSendIgnored(text) == TrimOf[text] = <<>> \/ send.sending

\* sendMessage(text) up to its first write; toxic is the oracle's verdict and
\* handler tells whether handleSend of ChatView made the call.  handleSend
\* sets sending around the call and shows a toast when the call throws.
SendMessageFrom(text, toxic, handler) ==
    /\ send.pc = "idle"
    /\ IF (handler /\ HandleSendIgnored(text)) \/ SendIgnored(text)
       THEN /\ send' = [IdleSend EXCEPT !.text = text, !.result = "undefined",
                                        !.handler = handler]
            /\ UNCHANGED <<nextKey, writeQueue>>
       ELSE IF toxic
       THEN /\ send' = [IdleSend EXCEPT !.chat = chatId, !.uid = user, !.text = text,
                                        !.result = "toxic", !.screened = TRUE,
                                        !.handler = handler,
                                        !.toast = IF handler THEN "error" ELSE "none"]
            /\ UNCHANGED <<nextKey, writeQueue>>
       ELSE /\ nextKey <= MaxMsgs
            /\ send' = [IdleSend EXCEPT !.pc = "setMessage", !.chat = chatId, !.uid = user,
                                        !.text = text, !.key = nextKey,
                                        !.message = NewMessage(text), !.screened = TRUE,
                                        !.handler = handler, !.sending = handler]
            /\ nextKey' = nextKey + 1
            /\ Issue("send")
    /\ UNCHANGED <<sharedVars, dbMessages, dbChats, dbTyping, hookVars, del, outsideMsgVars>>

\* handleSend with text in the input while the sendMessage call of an
\* earlier handleSend has not resolved.  The submit is refused by the guard
\* on sending; otherwise a second call of sendMessage starts beside the
\* first and push() hands it a key of its own.
HandleSendDuringSend(text) ==
    /\ send.pc # "idle"
    /\ send.handler
    /\ IF HandleSendIgnored(text)
       THEN /\ send' = [send EXCEPT !.refused = TRUE]
            /\ UNCHANGED nextKey
       ELSE /\ nextKey <= MaxMsgs
            /\ send' = [send EXCEPT !.overlap = TRUE]
            /\ nextKey' = nextKey + 1
    /\ UNCHANGED <<sharedVars, dbMessages, dbChats, dbTyping, hookVars, del, writeQueue,
                   outsideMsgVars>>

\* sendMessage(text) called on the hook.
SendMessageWith(text, toxic) == SendMessageFrom(text, toxic, FALSE)

\* handleSend of ChatView with text in the input.
HandleSend(text) == SendMessageFrom(text, ToxicityOf[text], TRUE)

\* Variant of SendMessage: the toxicity verdict is not consulted.
SendMessageUnscreened(text) == SendMessageWith(text, FALSE)

SendMessage(text) == SendMessageWith(text, ToxicityOf[text])

\* await set(newMessageRef, message) is acknowledged.
SendSetMessage ==
    /\ AckThenIssue("send")
    /\ send.pc = "setMessage"
    /\ dbMessages' = [dbMessages EXCEPT ![send.chat][send.key] = send.message]
    /\ Notify(send.chat)
    /\ send' = [send EXCEPT !.pc = "setLastMessage"]
    /\ UNCHANGED <<sharedVars, dbChats, dbTyping, nextKey, chatId, msgSub, messages, loading, del, outsideMsgVars>>

\* await set(chatLastMsgRef, ...) is acknowledged; Date.now() is read for the
\* next write.
SendSetLastMessage ==
    /\ AckThenIssue("send")
    /\ send.pc = "setLastMessage"
    /\ dbChats' = [dbChats EXCEPT ![send.chat].lastMessage = Some(LastMessagePreview(send.text))]
    /\ send' = [send EXCEPT !.pc = "setLastMessageTime", !.lastTime = now]
    /\ UNCHANGED <<sharedVars, dbMessages, dbTyping, nextKey, hookVars, del, outsideMsgVars>>

\* await set(chatLastTimeRef, Date.now()) is acknowledged.
SendSetLastMessageTime ==
    /\ AckThenIssue("send")
    /\ send.pc = "setLastMessageTime"
    /\ dbChats' = [dbChats EXCEPT ![send.chat].lastMessageTime = Some(send.lastTime)]
    /\ send' = [send EXCEPT !.pc = "setTyping"]
    /\ UNCHANGED <<sharedVars, dbMessages, dbTyping, nextKey, hookVars, del, outsideMsgVars>>

\* await setTypingStatus(false) is acknowledged; sendMessage returns emotion.
SendClearTyping ==
    /\ AckLast("send")
    /\ send.pc = "setTyping"
    /\ dbTyping' = [dbTyping EXCEPT ![send.chat][send.uid] = Some(FALSE)]
    /\ NotifyTyping(send.chat)
    /\ send' = [send EXCEPT !.pc = "idle", !.message = NoMsg, !.lastTime = 0,
                             !.result = Get(send.message.emotion), !.sending = FALSE]
    /\ UNCHANGED <<now, user, userProfile, authVars, wellVars, acctVars, viewVars, isTyping, typingWrites,
                   dbMessages, dbChats, nextKey, hookVars, del, outsideMsgVars>>

\* The store rejects the write sendMessage awaits: the promise rejects.
SendWriteRejected ==
    /\ AckLast("send")
    /\ send.pc \in {"setMessage", "setLastMessage", "setLastMessageTime", "setTyping"}
    /\ send' = [send EXCEPT !.pc = "idle", !.message = NoMsg, !.lastTime = 0,
                             !.result = "error", !.sending = FALSE,
                             !.toast = IF send.handler THEN "error" ELSE "none"]
    /\ UNCHANGED <<sharedVars, storeMsgVars, hookVars, del, outsideMsgVars>>

\* Variant of SoftDeleted: the write replaces the message record instead of
\* its isDeleted child.
SoftDeletedWholeRecord(r) == [NoMsg EXCEPT !.isDeleted = Some(TRUE)]

\* Variant of SoftDeleted: the flag is toggled instead of set.
SoftDeleteToggled(r) == [r EXCEPT !.isDeleted = Some(~Truthy(r.isDeleted))]

\* set(messageDeletedRef, true) applied to a message record.
SoftDeleted(r) == [r EXCEPT !.isDeleted = Some(TRUE)]

\* deleteMessage(messageId) up to its first write.  The ids passed are keys
\* the store has generated.
DeleteMessage(id) ==
    /\ del.pc = "idle"
    /\ id < nextKey
    /\ IF chatId = NoChat \/ user = NoUser
       THEN /\ del' = [IdleDel EXCEPT !.id = id, !.result = "undefined"]
            /\ UNCHANGED writeQueue
       ELSE /\ del' = [IdleDel EXCEPT !.pc = "setIsDeleted", !.chat = chatId, !.id = id]
            /\ Issue("delete")
    /\ UNCHANGED <<sharedVars, storeMsgVars, hookVars, send, outsideMsgVars>>

\* await set(messageDeletedRef, true) is acknowledged; Date.now() is read for
\* the next write.
DeleteSetIsDeleted ==
    /\ AckThenIssue("delete")
    /\ del.pc = "setIsDeleted"
    /\ dbMessages' = [dbMessages EXCEPT ![del.chat][del.id] = SoftDeleted(@)]
    /\ Notify(del.chat)
    /\ del' = [del EXCEPT !.pc = "setDeletedAt", !.at = now]
    /\ UNCHANGED <<sharedVars, dbChats, dbTyping, nextKey, chatId, msgSub, messages, loading, send, outsideMsgVars>>

\* await set(messageDeletedAtRef, Date.now()) is acknowledged.
DeleteSetDeletedAt ==
    /\ AckLast("delete")
    /\ del.pc = "setDeletedAt"
    /\ dbMessages' = [dbMessages EXCEPT ![del.chat][del.id].deletedAt = Some(del.at)]
    /\ Notify(del.chat)
    /\ del' = [del EXCEPT !.pc = "idle", !.result = "ok"]
    /\ UNCHANGED <<sharedVars, dbChats, dbTyping, nextKey, chatId, msgSub, messages, loading, send, outsideMsgVars>>

\* The store rejects the write deleteMessage awaits.
DeleteWriteRejected ==
    /\ AckLast("delete")
    /\ del.pc \in {"setIsDeleted", "setDeletedAt"}
    /\ del' = [del EXCEPT !.pc = "idle", !.result = "error"]
    /\ UNCHANGED <<sharedVars, storeMsgVars, hookVars, send, outsideMsgVars>>

(***************************************************************************)
(* Chat Directory Sync (useChats).                                         *)
(***************************************************************************)
\* (chat.lastMessageTime || 0)
OrZero(o) == IF IsSome(o) THEN Get(o) ELSE 0

\* chatSnapshot.exists(): the node chats/{c} holds a value or a child.
ChatNodeExists(c) ==
    \/ dbChats[c] # NoChatRec
    \/ \E k \in MsgIds : MsgExists(c, k)
    \/ \E u \in Uids : dbTyping[c][u] # None

\* { id: chatId, ...chatSnapshot.val() }
ChatEntry(c, rec) == [id |-> c] @@ rec

\* One step of the stable sort: entry e goes behind the entries that do not
\* sort after it under (b.lastMessageTime || 0) - (a.lastMessageTime || 0).
RECURSIVE InsertByTime(_, _)
InsertByTime(sorted, e) ==
    IF sorted = <<>> THEN <<e>>
    ELSE IF OrZero(Head(sorted).lastMessageTime) >= OrZero(e.lastMessageTime)
    THEN <<Head(sorted)>> \o InsertByTime(Tail(sorted), e)
    ELSE <<e>> \o sorted

\* Variant of SortByLastMessageTime: the list is published as read.
Unsorted(list) == list

\* chatList.sort((a, b) => (b.lastMessageTime || 0) - (a.lastMessageTime || 0))
RECURSIVE SortByLastMessageTime(_)
SortByLastMessageTime(list) ==
    IF list = <<>> THEN <<>>
    ELSE InsertByTime(SortByLastMessageTime(SubSeq(list, 1, Len(list) - 1)), list[Len(list)])

\* The list a finished index callback publishes: the records found, sorted.
ResolvedList(run) ==
    LET found == SelectSeq([i \in DOMAIN run.ids |-> i], LAMBDA i : Get(run.got[i]).exists)
    IN  SortByLastMessageTime(
            [j \in DOMAIN found |-> ChatEntry(run.ids[found[j]], Get(run.got[found[j]]).rec)])

\* A committed write below userChats/{u} reaches the open subscription.
NotifyIndex(u) == idxDirty' = (idxDirty \/ idxSub = u)

RemoveAt(seq, i) == SubSeq(seq, 1, i - 1) \o SubSeq(seq, i + 1, Len(seq))

\* onValue(userChatsRef, ...): the index subscription delivers a snapshot and
\* the callback starts a one-shot read of every chat id in it.
IndexSnapshot ==
    /\ idxSub # NoUser
    /\ idxDirty
    /\ idxDirty' = FALSE
    /\ IF dbUserChats[idxSub] = {}
       THEN /\ chats' = <<>>
            /\ chatsLoading' = FALSE
            /\ UNCHANGED runs
       ELSE /\ Len(runs) < MaxRuns
            /\ runs' = Append(runs, [ids |-> KeySeq(dbUserChats[idxSub]),
                                     got |-> [i \in 1..Cardinality(dbUserChats[idxSub]) |-> None]])
            /\ UNCHANGED <<chats, chatsLoading>>
    /\ UNCHANGED <<sharedVars, msgVars, dbUserChats, nextChatKey, idxSub, create>>

\* Callback r awaits its read of chat c.
AwaitsRead(r, c) == \E j \in DOMAIN runs[r].ids : runs[r].ids[j] = c /\ runs[r].got[j] = None

\* Variant of AnsweredInOrder: a listener may be called before an older
\* listener of the same chat record.
AnsweredInAnyOrder(r, c) == TRUE

\* The one-shot listeners of a chat record are called in the order of their
\* registration: callback r gets chat c only when no older callback still
\* awaits c.
AnsweredInOrder(r, c) == \A q \in 1..(r - 1) : ~AwaitsRead(q, c)

\* The next one-shot read of callback r resolves (the reads of one callback
\* are answered in the order they were issued); with the last one the
\* callback publishes its list.
ChatRead(r) ==
    /\ r \in DOMAIN runs
    /\ LET i == CHOOSE j \in DOMAIN runs[r].ids :
                    runs[r].got[j] = None /\ \A h \in 1..(j - 1) : runs[r].got[h] # None
           c == runs[r].ids[i]
           run == [runs[r] EXCEPT !.got[i] = Some([exists |-> ChatNodeExists(c), rec |-> dbChats[c]])]
       IN  /\ AnsweredInOrder(r, c)
           /\ IF \A j \in DOMAIN run.ids : run.got[j] # None
              THEN /\ chats' = ResolvedList(run)
                   /\ chatsLoading' = FALSE
                   /\ runs' = RemoveAt(runs, r)
              ELSE /\ runs' = [runs EXCEPT ![r] = run]
                   /\ UNCHANGED <<chats, chatsLoading>>
    /\ UNCHANGED <<sharedVars, msgVars, dbUserChats, nextChatKey, idxSub, idxDirty, create>>

\* chat.participants.includes(id)
Includes(participants, id) == id \in Range(Get(participants))

\* The callback of chats.find in createChat, on one cached chat.
IsExistingDirect(chat, uid, other) ==
    /\ ~Truthy(chat.isGroup)
    /\ Includes(chat.participants, other)
    /\ Includes(chat.participants, uid)

\* Variant of FindExisting: the cache is not searched.
FindNothing(list, uid, other) == 0

\* chats.find(...): the position of the first cached non-group chat holding
\* both ids, 0 when there is none.
FindExisting(list, uid, other) ==
    IF \E i \in DOMAIN list : IsExistingDirect(list[i], uid, other)
    THEN CHOOSE i \in DOMAIN list :
            /\ IsExistingDirect(list[i], uid, other)
            /\ \A j \in 1..(i - 1) : ~IsExistingDirect(list[j], uid, other)
    ELSE 0

\* rest holds the participants of a group whose index entry createGroupChat
\* has still to write, the one being written first.
IdleCreate ==
    [pc |-> "idle", uid |-> NoUser, other |-> NoUser, id |-> NoChat, rec |-> NoChatRec,
     result |-> "none", rest |-> <<>>]

\* createChat(participantId, participantName) up to its first write.
CreateChat(other) ==
    /\ create.pc = "idle"
    /\ IF user = NoUser
       THEN /\ create' = [IdleCreate EXCEPT !.other = other, !.result = "null"]
            /\ UNCHANGED <<nextChatKey, writeQueue>>
       ELSE IF FindExisting(chats, user, other) # 0
       THEN /\ create' = [IdleCreate EXCEPT !.uid = user, !.other = other,
                                            !.id = chats[FindExisting(chats, user, other)].id,
                                            !.result = "existing"]
            /\ UNCHANGED <<nextChatKey, writeQueue>>
       ELSE /\ nextChatKey <= MaxChats
            /\ create' = [IdleCreate EXCEPT !.pc = "setChat", !.uid = user, !.other = other,
                                            !.id = nextChatKey,
                                            !.rec = DirectChat(user, other, now)]
            /\ nextChatKey' = nextChatKey + 1
            /\ Issue("create")
    /\ UNCHANGED <<sharedVars, storeMsgVars, hookVars, send, del,
                   dbUserChats, idxSub, idxDirty, runs, chats, chatsLoading>>

\* await set(newChatRef, chat) is acknowledged.
CreateSetChat ==
    /\ AckThenIssue("create")
    /\ create.pc = "setChat"
    /\ dbChats' = [dbChats EXCEPT ![create.id] = create.rec]
    /\ create' = [create EXCEPT !.pc = "setOwnIndex"]
    /\ UNCHANGED <<sharedVars, dbMessages, dbTyping, nextKey, hookVars, send, del,
                   dbUserChats, nextChatKey, idxSub, idxDirty, runs, chats, chatsLoading>>

\* await set(userChats/{user.uid}/{chatId}, true) is acknowledged.
CreateSetOwnIndex ==
    /\ AckThenIssue("create")
    /\ create.pc = "setOwnIndex"
    /\ dbUserChats' = [dbUserChats EXCEPT ![create.uid] = @ \cup {create.id}]
    /\ NotifyIndex(create.uid)
    /\ create' = [create EXCEPT !.pc = "setOtherIndex"]
    /\ UNCHANGED <<sharedVars, storeMsgVars, hookVars, send, del,
                   nextChatKey, idxSub, runs, chats, chatsLoading>>

\* await set(userChats/{participantId}/{chatId}, true) is acknowledged;
\* createChat returns the new id.
CreateSetOtherIndex ==
    /\ AckLast("create")
    /\ create.pc = "setOtherIndex"
    /\ dbUserChats' = [dbUserChats EXCEPT ![create.other] = @ \cup {create.id}]
    /\ NotifyIndex(create.other)
    /\ create' = [IdleCreate EXCEPT !.id = create.id, !.result = "created"]
    /\ UNCHANGED <<sharedVars, storeMsgVars, hookVars, send, del,
                   nextChatKey, idxSub, runs, chats, chatsLoading>>

\* The store rejects the write createChat awaits.
CreateWriteRejected ==
    /\ AckLast("create")
    /\ create.pc \in {"setChat", "setOwnIndex", "setOtherIndex"}
    /\ create' = [IdleCreate EXCEPT !.id = create.id, !.result = "error"]
    /\ UNCHANGED <<sharedVars, storeMsgVars, hookVars, send, del,
                   dbUserChats, nextChatKey, idxSub, idxDirty, runs, chats, chatsLoading>>

\* createGroupChat(participantIds, groupName, participantNames) up to its
\* first write.
CreateGroupChat(participantIds, groupName) ==
    /\ create.pc = "idle"
    /\ IF user = NoUser
       THEN /\ create' = [IdleCreate EXCEPT !.result = "null"]
            /\ UNCHANGED <<nextChatKey, writeQueue>>
       ELSE /\ nextChatKey <= MaxChats
            /\ create' = [IdleCreate EXCEPT !.pc = "setGroupChat", !.uid = user,
                                            !.id = nextChatKey,
                                            !.rec = GroupChat(<<user>> \o participantIds,
                                                              groupName, now),
                                            !.rest = <<user>> \o participantIds]
            /\ nextChatKey' = nextChatKey + 1
            /\ Issue("create")
    /\ UNCHANGED <<sharedVars, storeMsgVars, hookVars, send, del,
                   dbUserChats, idxSub, idxDirty, runs, chats, chatsLoading>>

\* await set(newChatRef, chat) of createGroupChat is acknowledged; the loop
\* issues the index write of the first participant.
CreateGroupSetChat ==
    /\ AckThenIssue("create")
    /\ create.pc = "setGroupChat"
    /\ dbChats' = [dbChats EXCEPT ![create.id] = create.rec]
    /\ create' = [create EXCEPT !.pc = "setGroupIndex"]
    /\ UNCHANGED <<sharedVars, dbMessages, dbTyping, nextKey, hookVars, send, del,
                   dbUserChats, nextChatKey, idxSub, idxDirty, runs, chats, chatsLoading>>

\* await set(userChats/{participantId}/{chatId}, true) of the loop is
\* acknowledged: the loop goes on with the next participant, or
\* createGroupChat returns the new id after the last.
CreateGroupSetIndex ==
    /\ create.pc = "setGroupIndex"
    /\ dbUserChats' = [dbUserChats EXCEPT ![Head(create.rest)] = @ \cup {create.id}]
    /\ NotifyIndex(Head(create.rest))
    /\ IF Len(create.rest) > 1
       THEN /\ AckThenIssue("create")
            /\ create' = [create EXCEPT !.rest = Tail(create.rest)]
       ELSE /\ AckLast("create")
            /\ create' = [IdleCreate EXCEPT !.id = create.id, !.result = "created"]
    /\ UNCHANGED <<sharedVars, storeMsgVars, hookVars, send, del,
                   nextChatKey, idxSub, runs, chats, chatsLoading>>

\* Variant of CreateGroupWriteRejected: the rejection is swallowed and the
\* function goes on as after an acknowledgement, without the write.
CreateGroupWriteSkipped ==
    /\ create.pc \in {"setGroupChat", "setGroupIndex"}
    /\ IF create.pc = "setGroupChat"
       THEN /\ AckThenIssue("create")
            /\ create' = [create EXCEPT !.pc = "setGroupIndex"]
       ELSE IF Len(create.rest) > 1
       THEN /\ AckThenIssue("create")
            /\ create' = [create EXCEPT !.rest = Tail(create.rest)]
       ELSE /\ AckLast("create")
            /\ create' = [IdleCreate EXCEPT !.id = create.id, !.result = "created"]
    /\ UNCHANGED <<sharedVars, storeMsgVars, hookVars, send, del,
                   dbUserChats, nextChatKey, idxSub, idxDirty, runs, chats, chatsLoading>>

\* The store rejects the write createGroupChat awaits: nothing catches the
\* rejection and the promise of createGroupChat rejects.
CreateGroupWriteRejected ==
    /\ AckLast("create")
    /\ create.pc \in {"setGroupChat", "setGroupIndex"}
    /\ create' = [IdleCreate EXCEPT !.id = create.id, !.result = "error"]
    /\ UNCHANGED <<sharedVars, storeMsgVars, hookVars, send, del,
                   dbUserChats, nextChatKey, idxSub, idxDirty, runs, chats, chatsLoading>>

\* Another participant's client completes the lastMessageTime write of a send
\* in chat c; t is that client's Date.now().
PeerSummaryWrite(c, t) ==
    /\ dbChats[c] # NoChatRec
    /\ t > OrZero(dbChats[c].lastMessageTime)
    /\ dbChats' = [dbChats EXCEPT ![c].lastMessageTime = Some(t)]
    /\ UNCHANGED <<sharedVars, dbMessages, dbTyping, nextKey, hookVars, send, del, writeQueue, dirVars>>

(***************************************************************************)
(* useChat: the typing subscription, setTypingStatus and the writes of     *)
(* other clients to the observed chat.                                     *)
(***************************************************************************)
\* Variant of TypingOthers: the observer's own entry is not filtered out.
TypingAll(map, uid) == { u \in DOMAIN map : Truthy(map[u]) }

\* Object.entries(data).filter(([uid, isTyping]) => uid !== user.uid && isTyping)
TypingOthers(map, uid) == { u \in DOMAIN map : u # uid /\ Truthy(map[u]) }

\* onValue(typingRef, ...): the typing subscription delivers a snapshot.
TypingSnapshot ==
    /\ msgSub # NoChat
    /\ typDirty
    /\ typDirty' = FALSE
    /\ isTyping' = TypingOthers(dbTyping[msgSub], user)
    /\ UNCHANGED <<now, user, userProfile, authVars, wellVars, acctVars, viewVars, typingWrites,
                   msgVars, dirVars>>

\* setTypingStatus(typing), called by handleInputChange and its timeout
\* without awaiting the write.
SetTypingStatus(typing) ==
    /\ chatId # NoChat
    /\ user # NoUser
    /\ Len(typingWrites) < MaxTypingWrites
    /\ typingWrites' = Append(typingWrites, [chat |-> chatId, uid |-> user, value |-> typing])
    /\ Issue("typing")
    /\ UNCHANGED <<now, user, userProfile, authVars, wellVars, acctVars, viewVars, typDirty, isTyping,
                   storeMsgVars, hookVars, send, del, dirVars>>

\* The oldest typing write in flight is acknowledged.
TypingWriteAck ==
    /\ AckLast("typing")
    /\ dbTyping' = [dbTyping EXCEPT ![Head(typingWrites).chat][Head(typingWrites).uid] =
                                        Some(Head(typingWrites).value)]
    /\ NotifyTyping(Head(typingWrites).chat)
    /\ typingWrites' = Tail(typingWrites)
    /\ UNCHANGED <<now, user, userProfile, authVars, wellVars, acctVars, viewVars, isTyping,
                   dbMessages, dbChats, nextKey, hookVars, send, del, dirVars>>

\* The oldest typing write in flight is rejected.
TypingWriteRejected ==
    /\ AckLast("typing")
    /\ typingWrites' = Tail(typingWrites)
    /\ UNCHANGED <<now, user, userProfile, authVars, wellVars, acctVars, viewVars, typDirty, isTyping,
                   storeMsgVars, hookVars, send, del, dirVars>>

\* Another client writes the typing entry of u in chat c, or removes it.
PeerTypingWrite(c, u, v) ==
    /\ dbChats[c] # NoChatRec
    /\ dbTyping[c][u] # v
    /\ dbTyping' = [dbTyping EXCEPT ![c][u] = v]
    /\ NotifyTyping(c)
    /\ UNCHANGED <<now, user, userProfile, authVars, wellVars, acctVars, viewVars, isTyping, typingWrites,
                   dbMessages, dbChats, nextKey, hookVars, send, del, writeQueue, dirVars>>

\* The message record a send on the client of B stores; t is that client's
\* Date.now().
PeerMessage(t) ==
    [NoMsg EXCEPT !.senderId = Some("B"), !.senderName = Some("Bob"),
                  !.text = Some(TrimOf[TextHello]), !.timestamp = Some(t),
                  !.emotion = Some(EmotionOf[TextHello]), !.isToxic = Some(FALSE)]

\* The message write of a send on the client of B commits in chat c.
PeerSendMessage(c, t) ==
    /\ dbChats[c] # NoChatRec
    /\ nextKey <= MaxMsgs
    /\ dbMessages' = [dbMessages EXCEPT ![c][nextKey] = PeerMessage(t)]
    /\ nextKey' = nextKey + 1
    /\ Notify(c)
    /\ UNCHANGED <<sharedVars, dbChats, dbTyping, chatId, msgSub, messages, loading, send, del,
                   writeQueue, dirVars>>

\* The first write of a delete on another client commits on message k.
PeerDeleteMessage(c, k) ==
    /\ MsgExists(c, k)
    /\ ~Truthy(dbMessages[c][k].isDeleted)
    /\ dbMessages' = [dbMessages EXCEPT ![c][k] = SoftDeleted(@)]
    /\ Notify(c)
    /\ UNCHANGED <<sharedVars, dbChats, dbTyping, nextKey, chatId, msgSub, messages, loading,
                   send, del, writeQueue, dirVars>>

(***************************************************************************)
(* AuthProvider and WellbeingProvider: the auth-state handler, presence,   *)
(* the profile subscription, logout, the usage timer, the break check and  *)
(* the daily limit.  In the wellbeing specifications now counts minutes.   *)
(* The chat hooks follow the user through effects of their own; they are   *)
(* not mounted in the specifications of this section.                      *)
(***************************************************************************)
\* An account of the identity provider with its display name.
NoAccount == [exists |-> FALSE, displayName |-> None]

Account(name) == [exists |-> TRUE, displayName |-> Some(name)]

IdleSignUp == [pc |-> "idle", uid |-> NoUser, name |-> "", result |-> "none"]

IdleGoogle == [pc |-> "idle", uid |-> NoUser, first |-> FALSE, result |-> "none"]

\* rec is the record being written, data the partial record of the call and
\* stored the committed record at the time of the call.
IdleUpdate ==
    [pc |-> "idle", uid |-> NoUser, rec |-> NoProfile, data |-> NoProfile,
     stored |-> NoProfile, result |-> "none"]

\* steps lists what the last run of the auth-state handler for a present user
\* has done, in the order it did it.
IdlePresence == [pc |-> "idle", uid |-> NoUser, steps |-> <<>>]

\* Variant of AfterOnline: the profile subscription is opened first.
AfterOnlineSubscribedFirst == <<"onValue", "onDisconnect">>

\* What the handler does after await set(userStatusRef, 'online'): the two
\* onDisconnect registrations, then onValue(userRef, ...).
AfterOnline == <<"onDisconnect", "onValue">>

IdleLogout == [pc |-> "idle", uid |-> NoUser, signedOut |-> FALSE, result |-> "none"]

ProfileExists(p) == p # NoProfile

\* The committed record below users/{u}, or the record of the client's own
\* updateUserProfile write while that write awaits its acknowledgement.
OwnView(u) == IF update.pc = "set" /\ update.uid = u THEN update.rec ELSE dbUsers[u]

\* What the client sees below users/{u}: the committed record with the
\* client's own todayUsage write, while that write awaits its acknowledgement.
ProfileView(u, pending) ==
    IF pending # None /\ Get(pending).uid = u
    THEN [OwnView(u) EXCEPT !.todayUsage = Some(Get(pending).value)]
    ELSE OwnView(u)

\* A committed write below users/{u} reaches the open profile subscription.
NotifyProfile(u) == profDirty' = (IF u \in profSub THEN profDirty \cup {u} ELSE profDirty)

\* Variant of LimitToastFires: the effect does not depend on isLimitReached
\* and runs with every change of the usage.
LimitToastFiresOnEveryChange(wasReached, isReached) == isReached

\* The effect on [isLimitReached, isConfigured, toast]: it runs when
\* isLimitReached has changed and toasts when the limit is reached.
LimitToastFires(wasReached, isReached) == (wasReached # isReached) /\ isReached

\* The render after todayUsage and dailyLimit are set: the limit effect.
LimitEffect ==
    /\ limitToasts' = (IF LimitToastFires(todayUsage >= dailyLimit, todayUsage' >= dailyLimit')
                          /\ isConfigured
                       THEN limitToasts + 1 ELSE limitToasts)
    /\ limitToasts' <= MaxLimitToasts

\* The effect on [userProfile]: load the user's preferences.
LoadPreferences(p) ==
    /\ todayUsage' = OrZero(p.todayUsage)
    /\ dailyLimit' = (IF OrZero(p.dailyUsageLimit) = 0 THEN DefaultDailyLimit
                      ELSE Get(p.dailyUsageLimit))
    /\ LimitEffect

\* Variant of SessionEffect: WellbeingProvider stays mounted without a user,
\* with its state and its break check timer.
SessionEffectWithoutTeardown(u) ==
    /\ IF u # NoUser /\ isConfigured
       THEN /\ sessionStartTime' = Some(now)
            /\ checkElapsed' = (IF sessionStartTime = Some(now) THEN checkElapsed ELSE FALSE)
       ELSE UNCHANGED <<sessionStartTime, checkElapsed>>
    /\ UNCHANGED <<todayUsage, dailyLimit, showBreakReminder, lastBreakReminder>>

\* The render after setUser(u).  With a user, the effect on
\* [user, isConfigured] starts a session, and the break check timer restarts
\* when the start time changed.  Without one, ProtectedRoute redirects and
\* WellbeingProvider is unmounted: the cleanups clear both timers and the
\* state of the provider is gone, the next mount starting from useState's
\* initial values.
SessionEffect(u) ==
    IF u # NoUser /\ isConfigured
    THEN /\ sessionStartTime' = Some(now)
         /\ checkElapsed' = (IF sessionStartTime = Some(now) THEN checkElapsed ELSE FALSE)
         /\ UNCHANGED <<todayUsage, dailyLimit, showBreakReminder, lastBreakReminder>>
    ELSE /\ sessionStartTime' = None
         /\ checkElapsed' = FALSE
         /\ todayUsage' = 0
         /\ dailyLimit' = DefaultDailyLimit
         /\ showBreakReminder' = FALSE
         /\ lastBreakReminder' = 0

\* signIn(email, password): the identity provider opens a session.
ProviderSignIn(u) ==
    /\ isConfigured
    /\ authUser = NoUser
    /\ authUser' = u
    /\ authPending' = TRUE
    /\ UNCHANGED <<now, user, userProfile, typVars, acctVars, viewVars, msgVars, dirVars, isConfigured, authLoading, dbUsers,
                   profSub, profDirty, disconnectHooks, presence, logout, wellVars>>

\* The render after setUser(u), below ProtectedRoute.  Without a user the
\* route redirects and ChatDashboard is unmounted with ChatView: the cleanups
\* of useChat and useChats detach their listeners (off) and the state of the
\* hooks is gone.
DashboardEffect(u) ==
    IF u = NoUser
    THEN /\ chatId' = NoChat
         /\ msgSub' = NoChat
         /\ msgDirty' = FALSE
         /\ messages' = <<>>
         /\ loading' = FALSE
         /\ typDirty' = FALSE
         /\ isTyping' = {}
         /\ idxSub' = NoUser
         /\ idxDirty' = FALSE
         /\ runs' = <<>>
         /\ chats' = <<>>
         /\ chatsLoading' = FALSE
    ELSE UNCHANGED <<hookVars, typDirty, isTyping, idxSub, idxDirty, runs, chats, chatsLoading>>

\* The onAuthStateChanged callback up to its await.
AuthStateChanged ==
    /\ authSub = "open"
    /\ authPending
    /\ authPending' = FALSE
    /\ user' = authUser
    /\ SessionEffect(authUser)
    /\ DashboardEffect(authUser)
    /\ IF authUser # NoUser
       THEN /\ presence.pc = "idle"
            /\ presence' = [pc |-> "setOnline", uid |-> authUser, steps |-> <<"setOnline">>]
            /\ Issue("presence")
            /\ UNCHANGED <<userProfile, authLoading>>
       ELSE /\ userProfile' = None
            /\ authLoading' = FALSE
            /\ UNCHANGED <<presence, writeQueue>>
    /\ UNCHANGED <<now, typingWrites, acctVars, viewVars, storeMsgVars, send, del,
                   dbUserChats, nextChatKey, create, isConfigured,
                   authUser, dbUsers,
                   profSub, profDirty, disconnectHooks, logout,
                   breakToasts, limitToasts, usageWrite>>

\* await set(userStatusRef, 'online') is acknowledged: the disconnect
\* handlers are registered and the profile subscription opens.
PresenceSetOnline ==
    /\ presence.pc = "setOnline"
    /\ AckLast("presence")
    /\ dbUsers' = [dbUsers EXCEPT ![presence.uid].status = Some("online")]
    /\ disconnectHooks' = disconnectHooks \cup {presence.uid}
    /\ profSub' = profSub \cup {presence.uid}
    /\ profDirty' = profDirty \cup {presence.uid}
    /\ authLoading' = FALSE
    /\ presence' = [IdlePresence EXCEPT !.steps = presence.steps \o <<"acked">> \o AfterOnline]
    /\ UNCHANGED <<now, user, userProfile, typVars, acctVars, viewVars, storeMsgVars, hookVars, send, del, dirVars, isConfigured, authUser,
                   authPending, logout, wellVars>>

\* The online write is rejected: the callback ends with the rejection.
PresenceWriteRejected ==
    /\ presence.pc = "setOnline"
    /\ AckLast("presence")
    /\ presence' = [IdlePresence EXCEPT !.steps = presence.steps \o <<"rejected">>]
    /\ UNCHANGED <<now, user, userProfile, typVars, acctVars, viewVars, storeMsgVars, hookVars, send, del, dirVars, isConfigured, authUser,
                   authPending, authLoading, dbUsers, profSub, profDirty, disconnectHooks,
                   logout, wellVars>>

\* onValue(userRef, ...): the profile subscription of u delivers a snapshot.
ProfileSnapshot(u) ==
    /\ u \in profDirty
    /\ profDirty' = profDirty \ {u}
    /\ IF ProfileExists(ProfileView(u, usageWrite))
       THEN /\ userProfile' = Some(ProfileView(u, usageWrite))
            /\ LoadPreferences(ProfileView(u, usageWrite))
       ELSE UNCHANGED <<userProfile, todayUsage, dailyLimit, limitToasts>>
    /\ UNCHANGED <<now, user, typVars, acctVars, viewVars, msgVars, dirVars, isConfigured, authUser, authPending, authLoading,
                   dbUsers, profSub, disconnectHooks, presence, logout,
                   sessionStartTime, showBreakReminder, lastBreakReminder, checkElapsed,
                   breakToasts, usageWrite>>

\* logout() up to its first await, called from handleLogout.
Logout ==
    /\ isConfigured
    /\ logout.pc = "idle"
    /\ IF user # NoUser
       THEN /\ logout' = [IdleLogout EXCEPT !.pc = "setStatus", !.uid = user]
            /\ Issue("logout")
       ELSE /\ logout' = [IdleLogout EXCEPT !.pc = "signOut"]
            /\ UNCHANGED writeQueue
    /\ UNCHANGED <<now, user, userProfile, typVars, acctVars, viewVars, storeMsgVars, hookVars, send, del, dirVars, isConfigured, authUser,
                   authPending, authLoading, dbUsers, profSub, profDirty, disconnectHooks,
                   presence, wellVars>>

\* await set(userStatusRef, 'offline') is acknowledged.
LogoutSetStatus ==
    /\ logout.pc = "setStatus"
    /\ AckThenIssue("logout")
    /\ dbUsers' = [dbUsers EXCEPT ![logout.uid].status = Some("offline")]
    /\ NotifyProfile(logout.uid)
    /\ logout' = [logout EXCEPT !.pc = "setLastSeen"]
    /\ UNCHANGED <<now, user, userProfile, typVars, acctVars, viewVars, storeMsgVars, hookVars, send, del, dirVars, isConfigured, authUser,
                   authPending, authLoading, profSub, disconnectHooks, presence, wellVars>>

\* await set(userLastSeenRef, serverTimestamp()) is acknowledged.
LogoutSetLastSeen ==
    /\ logout.pc = "setLastSeen"
    /\ AckLast("logout")
    /\ dbUsers' = [dbUsers EXCEPT ![logout.uid].lastSeen = Some(now)]
    /\ NotifyProfile(logout.uid)
    /\ logout' = [logout EXCEPT !.pc = "signOut"]
    /\ UNCHANGED <<now, user, userProfile, typVars, acctVars, viewVars, storeMsgVars, hookVars, send, del, dirVars, isConfigured, authUser,
                   authPending, authLoading, profSub, disconnectHooks, presence, wellVars>>

\* await signOut(auth): the provider ends the session; handleLogout reports
\* "Signed out".
LogoutSignOut ==
    /\ logout.pc = "signOut"
    /\ authUser' = NoUser
    /\ authPending' = (authPending \/ authUser # NoUser)
    /\ logout' = [IdleLogout EXCEPT !.signedOut = TRUE, !.result = "ok"]
    /\ UNCHANGED <<now, user, userProfile, typVars, acctVars, viewVars, msgVars, dirVars, isConfigured, authLoading, dbUsers,
                   profSub, profDirty, disconnectHooks, presence, wellVars>>

\* A write of logout is rejected: the await throws, logout ends with the
\* rejection and handleLogout reports "Couldn't sign out".
LogoutWriteRejected ==
    /\ logout.pc \in {"setStatus", "setLastSeen"}
    /\ AckLast("logout")
    /\ logout' = [IdleLogout EXCEPT !.result = "error"]
    /\ UNCHANGED <<now, user, userProfile, typVars, acctVars, viewVars, storeMsgVars, hookVars, send, del, dirVars, isConfigured, authUser,
                   authPending, authLoading, dbUsers, profSub, profDirty, disconnectHooks,
                   presence, wellVars>>

\* set(usageRef, v) by the present user: the write is issued and the open
\* profile subscription sees it at once.
LocalUsageWrite(v) ==
    /\ usageWrite' = Some([uid |-> user, value |-> v])
    /\ Issue("usage")
    /\ IF user \in profSub
       THEN /\ userProfile' = Some(ProfileView(user, usageWrite'))
            /\ LoadPreferences(ProfileView(user, usageWrite'))
       ELSE /\ todayUsage' = v
            /\ UNCHANGED <<userProfile, dailyLimit>>
            /\ LimitEffect

\* The usage timer fires: one more minute of use.
UsageTick ==
    /\ user # NoUser
    /\ isConfigured
    /\ usageWrite = None
    /\ todayUsage < MaxUsage
    /\ LocalUsageWrite(todayUsage + 1)
    /\ UNCHANGED <<now, user, typVars, acctVars, viewVars, storeMsgVars, hookVars, send, del, dirVars, authVars,
                   sessionStartTime, showBreakReminder, lastBreakReminder, checkElapsed,
                   breakToasts>>

\* Variant of ResetAllowed: the reset is made whoever is signed in.
ResetUnguarded == TRUE

\* if (user && isConfigured)
ResetAllowed == user # NoUser /\ isConfigured

\* resetDailyUsage()
ResetDailyUsage ==
    /\ ResetAllowed
    /\ usageWrite = None
    /\ LocalUsageWrite(0)
    /\ UNCHANGED <<now, user, typVars, acctVars, viewVars, storeMsgVars, hookVars, send, del, dirVars, authVars,
                   sessionStartTime, showBreakReminder, lastBreakReminder, checkElapsed,
                   breakToasts>>

\* The todayUsage write is acknowledged.
UsageWriteAck ==
    /\ usageWrite # None
    /\ AckLast("usage")
    /\ dbUsers' = [dbUsers EXCEPT ![Get(usageWrite).uid].todayUsage = Some(Get(usageWrite).value)]
    /\ usageWrite' = None
    /\ UNCHANGED <<now, user, userProfile, typVars, acctVars, viewVars, storeMsgVars, hookVars, send, del, dirVars, isConfigured, authUser,
                   authPending, authLoading, profSub, profDirty, disconnectHooks, presence, logout,
                   sessionStartTime, todayUsage, dailyLimit, showBreakReminder,
                   lastBreakReminder, checkElapsed, breakToasts, limitToasts>>

\* The todayUsage write is rejected: the open profile subscription sees the
\* committed record again.
UsageWriteRejected ==
    /\ usageWrite # None
    /\ AckLast("usage")
    /\ usageWrite' = None
    /\ IF Get(usageWrite).uid \in profSub /\ ProfileExists(dbUsers[Get(usageWrite).uid])
       THEN /\ userProfile' = Some(dbUsers[Get(usageWrite).uid])
            /\ LoadPreferences(dbUsers[Get(usageWrite).uid])
       ELSE UNCHANGED <<userProfile, todayUsage, dailyLimit, limitToasts>>
    /\ UNCHANGED <<now, user, typVars, acctVars, viewVars, storeMsgVars, hookVars, send, del, dirVars, authVars,
                   sessionStartTime, showBreakReminder, lastBreakReminder, checkElapsed,
                   breakToasts>>

\* updateUserProfile({dailyUsageLimit}) on another client of user u commits.
PeerLimitWrite(u, limit) ==
    /\ ProfileExists(dbUsers[u])
    /\ dbUsers[u].dailyUsageLimit # Some(limit)
    /\ dbUsers' = [dbUsers EXCEPT ![u].dailyUsageLimit = Some(limit)]
    /\ NotifyProfile(u)
    /\ UNCHANGED <<now, user, userProfile, typVars, acctVars, viewVars, msgVars, dirVars, isConfigured, authUser, authPending, authLoading,
                   profSub, disconnectHooks, presence, logout, wellVars>>

\* One minute passes; a running check timer's period has elapsed.
MinuteTick ==
    /\ now < SessionEpoch + MaxMinutes
    /\ now' = now + 1
    /\ checkElapsed' = (sessionStartTime # None /\ isConfigured)
    /\ UNCHANGED <<user, userProfile, typVars, acctVars, viewVars, msgVars, dirVars, authVars,
                   sessionStartTime, todayUsage, dailyLimit, showBreakReminder,
                   lastBreakReminder, breakToasts, limitToasts, usageWrite>>

\* Variant of ShouldRemind: the time since the last reminder is not looked at.
ShouldRemindBySessionOnly(start, last, t) == t - start >= BreakInterval

\* sessionDuration >= 30 && timeSinceLastReminder >= 30, in minutes.
ShouldRemind(start, last, t) ==
    /\ t - start >= BreakInterval
    /\ t - last >= BreakInterval

\* The callback of the break check timer; the timer starts anew when the
\* reminder time has changed, and runs on otherwise.
CheckBreak ==
    /\ checkElapsed
    /\ checkElapsed' = FALSE
    /\ IF ShouldRemind(Get(sessionStartTime), lastBreakReminder, now)
       THEN /\ showBreakReminder' = TRUE
            /\ lastBreakReminder' = now
            /\ breakToasts' = Append(breakToasts, now)
       ELSE UNCHANGED <<showBreakReminder, lastBreakReminder, breakToasts>>
    /\ UNCHANGED <<now, user, userProfile, typVars, acctVars, viewVars, msgVars, dirVars, authVars, sessionStartTime, todayUsage,
                   dailyLimit, limitToasts, usageWrite>>

\* dismissBreakReminder()
DismissBreakReminder ==
    /\ showBreakReminder
    /\ showBreakReminder' = FALSE
    /\ UNCHANGED <<now, user, userProfile, typVars, acctVars, viewVars, msgVars, dirVars, authVars, sessionStartTime, todayUsage,
                   dailyLimit, lastBreakReminder, checkElapsed, breakToasts, limitToasts,
                   usageWrite>>

(***************************************************************************)
(* AuthProvider: signUp and signInWithGoogle.                              *)
(***************************************************************************)
\* What no account operation changes.
acctFrame ==
    <<now, typVars, viewVars, storeMsgVars, hookVars, send, del, dirVars, isConfigured, authLoading,
      profSub, disconnectHooks, presence, logout, wellVars, user, userProfile>>

\* signUp(email, password, displayName) up to the return of
\* createUserWithEmailAndPassword, which creates the account and signs it in;
\* an email that has an account is refused.
SignUp(u, name) ==
    /\ isConfigured
    /\ authUser = NoUser
    /\ signup.pc = "idle"
    /\ google.pc = "idle"
    /\ IF accounts[u].exists
       THEN /\ signup' = [IdleSignUp EXCEPT !.uid = u, !.name = name, !.result = "error"]
            /\ UNCHANGED <<accounts, authUser, authPending>>
       ELSE /\ accounts' = [accounts EXCEPT ![u] = [exists |-> TRUE, displayName |-> None]]
            /\ authUser' = u
            /\ authPending' = TRUE
            /\ signup' = [IdleSignUp EXCEPT !.pc = "updateProfile", !.uid = u, !.name = name]
    /\ UNCHANGED <<acctFrame, dbUsers, profDirty, writeQueue, google, update>>

\* await updateProfile(user, { displayName }) returns; the profile write is
\* issued.
SignUpUpdateProfile ==
    /\ signup.pc = "updateProfile"
    /\ accounts' = [accounts EXCEPT ![signup.uid].displayName = Some(signup.name)]
    /\ signup' = [signup EXCEPT !.pc = "setProfile"]
    /\ Issue("signup")
    /\ UNCHANGED <<acctFrame, authUser, authPending, dbUsers, profDirty, google, update>>

\* await set(userRef, {...}) of signUp is acknowledged.
SignUpSetProfile ==
    /\ signup.pc = "setProfile"
    /\ AckLast("signup")
    /\ dbUsers' = [dbUsers EXCEPT ![signup.uid] = InitialProfile(signup.uid, signup.name)]
    /\ NotifyProfile(signup.uid)
    /\ signup' = [signup EXCEPT !.pc = "idle", !.result = "ok"]
    /\ UNCHANGED <<acctFrame, authUser, authPending, accounts, google, update>>

\* The store rejects the profile write of signUp: signUp throws.
SignUpWriteRejected ==
    /\ signup.pc = "setProfile"
    /\ AckLast("signup")
    /\ signup' = [signup EXCEPT !.pc = "idle", !.result = "error"]
    /\ UNCHANGED <<acctFrame, authUser, authPending, accounts, dbUsers, profDirty, google, update>>

\* signInWithGoogle() up to the return of signInWithPopup, which signs the
\* account in and creates it on its first sign-in; the one-time listener on
\* users/{uid} is registered.
SignInWithGoogle(u) ==
    /\ isConfigured
    /\ authUser = NoUser
    /\ signup.pc = "idle"
    /\ google.pc = "idle"
    /\ accounts' = [accounts EXCEPT ![u] = IF @.exists THEN @ ELSE Account("Alice")]
    /\ authUser' = u
    /\ authPending' = TRUE
    /\ google' = [IdleGoogle EXCEPT !.pc = "check", !.uid = u,
                                    !.first = (~accounts[u].exists /\ ~ProfileExists(dbUsers[u]))]
    /\ UNCHANGED <<acctFrame, dbUsers, profDirty, writeQueue, signup, update>>

\* What the one-time listener sees below users/{u}: the committed record
\* with the status write of the auth-state handler while it awaits its
\* acknowledgement.
CheckView(u) ==
    IF presence.pc = "setOnline" /\ presence.uid = u
    THEN [dbUsers[u] EXCEPT !.status = Some("online")]
    ELSE dbUsers[u]

\* The one-time listener fires: if (!snapshot.exists()) the profile write is
\* issued.
GoogleSnapshot ==
    /\ google.pc = "check"
    /\ IF ProfileExists(CheckView(google.uid))
       THEN /\ google' = [google EXCEPT !.pc = "idle", !.result = "exists"]
            /\ UNCHANGED writeQueue
       ELSE /\ google' = [google EXCEPT !.pc = "setProfile"]
            /\ Issue("google")
    /\ UNCHANGED <<acctFrame, authUser, authPending, accounts, dbUsers, profDirty, signup, update>>

\* await set(userRef, {...}) of the listener is acknowledged.
GoogleSetProfile ==
    /\ google.pc = "setProfile"
    /\ AckLast("google")
    /\ dbUsers' = [dbUsers EXCEPT ![google.uid] =
                      InitialProfile(google.uid, Get(accounts[google.uid].displayName))]
    /\ NotifyProfile(google.uid)
    /\ google' = [google EXCEPT !.pc = "idle", !.result = "created"]
    /\ UNCHANGED <<acctFrame, authUser, authPending, accounts, signup, update>>

\* The store rejects the profile write of the listener.
GoogleWriteRejected ==
    /\ google.pc = "setProfile"
    /\ AckLast("google")
    /\ google' = [google EXCEPT !.pc = "idle", !.result = "error"]
    /\ UNCHANGED <<acctFrame, authUser, authPending, accounts, dbUsers, profDirty, signup, update>>

(***************************************************************************)
(* AuthProvider: updateUserProfile.                                        *)
(***************************************************************************)
\* Partial records passed to updateUserProfile: a field that is None is not
\* in the partial record.
PartialLimit == [NoProfile EXCEPT !.dailyUsageLimit = Some(DefaultDailyLimit + 2)]

PartialSafety == [NoProfile EXCEPT !.safetyMode = Some(TRUE)]

Partials == {PartialLimit, PartialSafety}

\* { ...base, ...data }
Merge(base, data) ==
    [f \in DOMAIN NoProfile |-> IF data[f] # None THEN data[f] ELSE base[f]]

\* Variant of UpdateBase: the record is built on the committed record.
UpdateBaseFromStore == dbUsers[user]

\* ...userProfile: the local snapshot, nothing when it is null.
UpdateBase == IF userProfile = None THEN NoProfile ELSE Get(userProfile)

\* updateUserProfile(data) up to its await; the open profile subscription
\* sees the record being written at once.
UpdateUserProfile(data) ==
    /\ update.pc = "idle"
    /\ user # NoUser
    /\ update' = [IdleUpdate EXCEPT !.pc = "set", !.uid = user,
                                    !.rec = Merge(UpdateBase, data), !.data = data,
                                    !.stored = dbUsers[user]]
    /\ Issue("update")
    /\ IF user \in profSub
       THEN /\ userProfile' = Some(Merge(UpdateBase, data))
            /\ LoadPreferences(Merge(UpdateBase, data))
       ELSE UNCHANGED <<userProfile, todayUsage, dailyLimit, limitToasts>>
    /\ UNCHANGED <<now, user, typVars, viewVars, storeMsgVars, hookVars, send, del, dirVars, authVars,
                   accounts, signup, google, sessionStartTime, showBreakReminder,
                   lastBreakReminder, checkElapsed, breakToasts, usageWrite>>

\* await set(userRef, {...}) of updateUserProfile is acknowledged.
UpdateWriteAck ==
    /\ update.pc = "set"
    /\ AckLast("update")
    /\ dbUsers' = [dbUsers EXCEPT ![update.uid] = update.rec]
    /\ update' = [update EXCEPT !.pc = "idle", !.result = "ok"]
    /\ UNCHANGED <<now, user, userProfile, typVars, viewVars, storeMsgVars, hookVars, send, del, dirVars,
                   isConfigured, authUser, authPending, authLoading, profSub, profDirty,
                   disconnectHooks, presence, logout, wellVars, accounts, signup, google>>

\* The store rejects the write of updateUserProfile: the open profile
\* subscription sees the committed record again.
UpdateWriteRejected ==
    /\ update.pc = "set"
    /\ AckLast("update")
    /\ NotifyProfile(update.uid)
    /\ update' = [update EXCEPT !.pc = "idle", !.result = "error"]
    /\ UNCHANGED <<now, user, userProfile, typVars, viewVars, storeMsgVars, hookVars, send, del, dirVars,
                   isConfigured, authUser, authPending, authLoading, dbUsers, profSub,
                   disconnectHooks, presence, logout, wellVars, accounts, signup, google>>

\* useChat's typing subscription as its first effect opens it, and no account
\* operation in flight: every uid has an account.
InitExtrasIdle ==
    /\ typDirty = (msgSub # NoChat)
    /\ isTyping = {}
    /\ typingWrites = <<>>
    /\ accounts = [u \in Uids |-> Account("Alice")]
    /\ authSub = (IF isConfigured THEN "open" ELSE "none")
    /\ typingTimer = None
    /\ signup = IdleSignUp
    /\ google = IdleGoogle
    /\ update = IdleUpdate

\* The providers of a page whose user (if any) has been signed in for a
\* while: the profile subscription is open and has delivered userProfile.
InitSessionIdle ==
    /\ isConfigured = TRUE
    /\ authUser = user
    /\ authPending = FALSE
    /\ authLoading = FALSE
    /\ dbUsers = [u \in Uids |-> IF u = user /\ userProfile # None THEN Get(userProfile)
                                 ELSE NoProfile]
    /\ profSub = (IF user = NoUser THEN {} ELSE {user})
    /\ profDirty = {}
    /\ disconnectHooks = profSub
    /\ presence = IdlePresence
    /\ logout = IdleLogout
    /\ sessionStartTime = (IF user = NoUser THEN None ELSE Some(now))
    /\ todayUsage = 0
    /\ dailyLimit = DefaultDailyLimit
    /\ showBreakReminder = FALSE
    /\ lastBreakReminder = 0
    /\ checkElapsed = FALSE
    /\ breakToasts = <<>>
    /\ limitToasts = 0
    /\ usageWrite = None
    /\ InitExtrasIdle

\* useChats before any chat is created by this client: chat 1 exists and is
\* in the index of its participants; nothing is in flight.
InitDirectoryIdle ==
    /\ dbUserChats = [u \in Uids |-> IF u \in {"A", "B"} THEN {1} ELSE {}]
    /\ nextChatKey = 2
    /\ idxSub = NoUser
    /\ idxDirty = FALSE
    /\ runs = <<>>
    /\ chats = <<>>
    /\ chatsLoading = FALSE
    /\ create = IdleCreate

\* The store as the message stream finds it: a direct chat c1 of A and B with
\* no message yet.
InitStore ==
    /\ dbMessages = [c \in ChatIds |-> [k \in MsgIds |-> NoMsg]]
    /\ dbChats = [c \in ChatIds |-> IF c = 1 THEN DirectChat("A", "B", 1) ELSE NoChatRec]
    /\ dbTyping = [c \in ChatIds |-> [u \in Uids |-> None]]
    /\ nextKey = 1

\* useChat(chatId) after its first effect: the subscriptions are open when a
\* chat and a user are given.
InitHook ==
    /\ msgSub = (IF chatId # NoChat /\ user # NoUser THEN chatId ELSE NoChat)
    /\ msgDirty = (msgSub # NoChat)
    /\ messages = <<>>
    /\ loading = (msgSub # NoChat)
    /\ send = IdleSend
    /\ del = IdleDel
    /\ writeQueue = <<>>

InitMessages ==
    /\ now = 1
    /\ user \in {"A", NoUser}
    /\ userProfile \in (IF user = NoUser THEN {None}
                        ELSE {None, Some(InitialProfile(user, "Alice")),
                              Some([InitialProfile(user, "Alice") EXCEPT !.displayName = None])})
    /\ chatId \in {1, NoChat}
    /\ InitStore
    /\ InitHook
    /\ InitDirectoryIdle
    /\ InitSessionIdle

\* The send operation, its acknowledgements and the message subscription.
NextSend ==
    \/ Tick
    \/ MessagesSnapshot
    \/ \E text \in Texts : SendMessage(text)
    \/ \E text \in Texts : HandleSend(text)
    \/ SendSetMessage
    \/ SendSetLastMessage
    \/ SendSetLastMessageTime
    \/ SendClearTyping
    \/ SendWriteRejected

SpecSend == InitMessages /\ [][NextSend]_vars

\* The delete operation on messages that send has stored.
NextDelete ==
    \/ Tick
    \/ MessagesSnapshot
    \/ (nextKey <= MaxDeletable /\ SendMessage(TextHappy))
    \/ SendSetMessage
    \/ SendSetLastMessage
    \/ SendSetLastMessageTime
    \/ SendClearTyping
    \/ SendWriteRejected
    \/ \E id \in MsgIds : DeleteMessage(id)
    \/ DeleteSetIsDeleted
    \/ DeleteSetDeletedAt
    \/ DeleteWriteRejected

InitDelete ==
    /\ now = 1
    /\ user \in {"A", NoUser}
    /\ userProfile = (IF user = NoUser THEN None ELSE Some(InitialProfile(user, "Alice")))
    /\ chatId \in {1, NoChat}
    /\ InitStore
    /\ InitHook
    /\ InitDirectoryIdle
    /\ InitSessionIdle

SpecDelete == InitDelete /\ [][NextDelete]_vars

\* useChats for a signed-in or absent user; chat 1 is a group chat or a
\* direct chat of A and B.
InitChats ==
    /\ now = 1
    /\ user \in {"A", NoUser}
    /\ userProfile = (IF user = NoUser THEN None ELSE Some(InitialProfile(user, "Alice")))
    /\ chatId = NoChat
    /\ dbMessages = [c \in ChatIds |-> [k \in MsgIds |-> NoMsg]]
    /\ \E first \in {GroupChat(<<"A", "B">>, "team", 1), DirectChat("A", "B", 1)} :
          dbChats = [c \in ChatIds |-> IF c = 1 THEN first ELSE NoChatRec]
    /\ dbTyping = [c \in ChatIds |-> [u \in Uids |-> None]]
    /\ nextKey = 1
    /\ InitHook
    /\ dbUserChats = [u \in Uids |-> IF u \in {"A", "B"} THEN {1} ELSE {}]
    /\ nextChatKey = 2
    /\ idxSub = user
    /\ idxDirty = (user # NoUser)
    /\ runs = <<>>
    /\ chats = <<>>
    /\ chatsLoading = (user # NoUser)
    /\ create = IdleCreate
    /\ InitSessionIdle

\* The chat directory: index subscription, one-shot reads, createChat and
\* the summary writes of other participants.
NextChats ==
    \/ IndexSnapshot
    \/ \E r \in 1..MaxRuns : ChatRead(r)
    \/ \E other \in Uids \ {user} : CreateChat(other)
    \/ CreateSetChat
    \/ CreateSetOwnIndex
    \/ CreateSetOtherIndex
    \/ CreateWriteRejected
    \/ \E c \in ChatIds : \E t \in PeerTimes : PeerSummaryWrite(c, t)

SpecChats == InitChats /\ [][NextChats]_vars

\* The page loads with or without a persisted session of A; the first auth
\* state awaits delivery.
InitAuth ==
    /\ now = 1
    /\ user = NoUser
    /\ userProfile = None
    /\ chatId = NoChat
    /\ InitStore
    /\ InitHook
    /\ InitDirectoryIdle
    /\ isConfigured = TRUE
    /\ authUser \in {"A", NoUser}
    /\ authPending = TRUE
    /\ authLoading = TRUE
    /\ dbUsers \in {[u \in Uids |-> InitialProfile(u, "Alice")],
                    [u \in Uids |-> NoProfile]}
    /\ profSub = {}
    /\ profDirty = {}
    /\ disconnectHooks = {}
    /\ presence = IdlePresence
    /\ logout = IdleLogout
    /\ sessionStartTime = None
    /\ todayUsage = 0
    /\ dailyLimit = DefaultDailyLimit
    /\ showBreakReminder = FALSE
    /\ lastBreakReminder = 0
    /\ checkElapsed = FALSE
    /\ breakToasts = <<>>
    /\ limitToasts = 0
    /\ usageWrite = None
    /\ InitExtrasIdle

\* Sign-in, the auth state callback, the profile subscription and logout.
NextAuth ==
    \/ Tick
    \/ ProviderSignIn("A")
    \/ AuthStateChanged
    \/ PresenceSetOnline
    \/ PresenceWriteRejected
    \/ \E u \in Uids : ProfileSnapshot(u)
    \/ Logout
    \/ LogoutSetStatus
    \/ LogoutSetLastSeen
    \/ LogoutSignOut
    \/ LogoutWriteRejected
    \/ PeerLimitWrite("A", DefaultDailyLimit + 1)

SpecAuth == InitAuth /\ [][NextAuth]_vars

\* A is signed in, the profile subscription is open and its first snapshot
\* awaits delivery; the stored usage is StoredUsage, the stored limit is the
\* default or missing.
InitUsage ==
    /\ now = 1
    /\ user \in {"A", NoUser}
    /\ userProfile = None
    /\ chatId = NoChat
    /\ InitStore
    /\ InitHook
    /\ InitDirectoryIdle
    /\ isConfigured = TRUE
    /\ authUser = user
    /\ authPending = FALSE
    /\ authLoading = FALSE
    /\ \E limit \in {None, Some(DefaultDailyLimit)} :
          dbUsers = [u \in Uids |-> [InitialProfile(u, "Alice") EXCEPT
                                        !.todayUsage = Some(StoredUsage),
                                        !.dailyUsageLimit = limit]]
    /\ profSub = {user} \ {NoUser}
    /\ profDirty = profSub
    /\ disconnectHooks = profSub
    /\ presence = IdlePresence
    /\ logout = IdleLogout
    /\ sessionStartTime = (IF user = NoUser THEN None ELSE Some(now))
    /\ todayUsage = 0
    /\ dailyLimit = DefaultDailyLimit
    /\ showBreakReminder = FALSE
    /\ lastBreakReminder = 0
    /\ checkElapsed = FALSE
    /\ breakToasts = <<>>
    /\ limitToasts = 0
    /\ usageWrite = None
    /\ InitExtrasIdle

\* The usage timer, its writes, resetDailyUsage and the profile subscription.
NextUsage ==
    \/ ProfileSnapshot("A")
    \/ UsageTick
    \/ UsageWriteAck
    \/ UsageWriteRejected
    \/ ResetDailyUsage
    \/ \E limit \in {DefaultDailyLimit, DefaultDailyLimit + 1} : PeerLimitWrite("A", limit)

SpecUsage == InitUsage /\ [][NextUsage]_vars

\* A session of A starts at SessionEpoch, or the configuration is unusable
\* and there is no session.
InitBreak ==
    /\ now = SessionEpoch
    /\ isConfigured \in BOOLEAN
    /\ user = (IF isConfigured THEN "A" ELSE NoUser)
    /\ userProfile = (IF isConfigured THEN Some(InitialProfile("A", "Alice")) ELSE None)
    /\ chatId = NoChat
    /\ InitStore
    /\ InitHook
    /\ InitDirectoryIdle
    /\ authUser = user
    /\ authPending = FALSE
    /\ authLoading = FALSE
    /\ dbUsers = [u \in Uids |-> InitialProfile(u, "Alice")]
    /\ profSub = (IF isConfigured THEN {"A"} ELSE {})
    /\ profDirty = {}
    /\ disconnectHooks = profSub
    /\ presence = IdlePresence
    /\ logout = IdleLogout
    /\ sessionStartTime = (IF isConfigured THEN Some(now) ELSE None)
    /\ todayUsage = 0
    /\ dailyLimit = DefaultDailyLimit
    /\ showBreakReminder = FALSE
    /\ lastBreakReminder = 0
    /\ checkElapsed = FALSE
    /\ breakToasts = <<>>
    /\ limitToasts = 0
    /\ usageWrite = None
    /\ InitExtrasIdle

\* The clock, the break check timer and the dismissal of the reminder.
NextBreak ==
    \/ MinuteTick
    \/ CheckBreak
    \/ DismissBreakReminder

SpecBreak == InitBreak /\ [][NextBreak]_vars


\* A has no account and no record below users/A; B has both.  signUp and
\* signInWithGoogle run with the auth-state handler.
InitAccount ==
    /\ now = 1
    /\ user = NoUser
    /\ userProfile = None
    /\ chatId = NoChat
    /\ InitStore
    /\ InitHook
    /\ InitDirectoryIdle
    /\ isConfigured = TRUE
    /\ authUser = NoUser
    /\ authPending = FALSE
    /\ authLoading = FALSE
    /\ dbUsers = [u \in Uids |-> IF u = "A" THEN NoProfile ELSE InitialProfile(u, "Bob")]
    /\ profSub = {}
    /\ profDirty = {}
    /\ disconnectHooks = {}
    /\ presence = IdlePresence
    /\ logout = IdleLogout
    /\ sessionStartTime = None
    /\ todayUsage = 0
    /\ dailyLimit = DefaultDailyLimit
    /\ showBreakReminder = FALSE
    /\ lastBreakReminder = 0
    /\ checkElapsed = FALSE
    /\ breakToasts = <<>>
    /\ limitToasts = 0
    /\ usageWrite = None
    /\ typDirty = FALSE
    /\ isTyping = {}
    /\ typingWrites = <<>>
    /\ accounts = [u \in Uids |-> IF u = "A" THEN NoAccount ELSE Account("Bob")]
    /\ authSub = "open"
    /\ typingTimer = None
    /\ signup = IdleSignUp
    /\ google = IdleGoogle
    /\ update = IdleUpdate

NextAccount ==
    \/ Tick
    \/ \E u \in Uids : SignUp(u, "Alice")
    \/ SignUpUpdateProfile
    \/ SignUpSetProfile
    \/ SignUpWriteRejected
    \/ \E u \in Uids : SignInWithGoogle(u)
    \/ GoogleSnapshot
    \/ GoogleSetProfile
    \/ GoogleWriteRejected
    \/ AuthStateChanged
    \/ PresenceSetOnline
    \/ PresenceWriteRejected
    \/ \E u \in Uids : ProfileSnapshot(u)

SpecAccount == InitAccount /\ [][NextAccount]_vars

\* A is signed in with a stored profile and the first snapshot of the profile
\* subscription is still to come; A updates the profile while another client
\* of A changes the usage limit.
InitProfile ==
    /\ now = 1
    /\ user = "A"
    /\ userProfile = None
    /\ chatId = NoChat
    /\ InitStore
    /\ InitHook
    /\ InitDirectoryIdle
    /\ isConfigured = TRUE
    /\ authUser = "A"
    /\ authPending = FALSE
    /\ authLoading = FALSE
    /\ dbUsers = [u \in Uids |-> InitialProfile(u, "Alice")]
    /\ profSub = {"A"}
    /\ profDirty = {"A"}
    /\ disconnectHooks = {"A"}
    /\ presence = IdlePresence
    /\ logout = IdleLogout
    /\ sessionStartTime = Some(now)
    /\ todayUsage = 0
    /\ dailyLimit = DefaultDailyLimit
    /\ showBreakReminder = FALSE
    /\ lastBreakReminder = 0
    /\ checkElapsed = FALSE
    /\ breakToasts = <<>>
    /\ limitToasts = 0
    /\ usageWrite = None
    /\ InitExtrasIdle

NextProfile ==
    \/ Tick
    \/ ProfileSnapshot("A")
    \/ \E data \in Partials : UpdateUserProfile(data)
    \/ UpdateWriteAck
    \/ UpdateWriteRejected
    \/ \E limit \in {DefaultDailyLimit, DefaultDailyLimit + 1} : PeerLimitWrite("A", limit)

SpecProfile == InitProfile /\ [][NextProfile]_vars

\* A observes chat 1, a direct chat with B, and both clients write to it.
InitObserve ==
    /\ now = 1
    /\ user = "A"
    /\ userProfile = Some(InitialProfile(user, "Alice"))
    /\ chatId = 1
    /\ InitStore
    /\ InitHook
    /\ InitDirectoryIdle
    /\ InitSessionIdle

\* The message subscription of A, the sends of A and the message writes of B.
NextObserve ==
    \/ Tick
    \/ MessagesSnapshot
    \/ SendMessage(TextHello)
    \/ SendSetMessage
    \/ SendSetLastMessage
    \/ SendSetLastMessageTime
    \/ SendClearTyping
    \/ SendWriteRejected
    \/ \E t \in PeerTimes : PeerSendMessage(1, t)
    \/ \E k \in MsgIds : PeerDeleteMessage(1, k)

SpecObserve == InitObserve /\ [][NextObserve]_vars

\* The typing subscription of A, the typing writes and sends of A, and the
\* typing writes of other clients.
NextTyping ==
    \/ TypingSnapshot
    \/ \E typing \in BOOLEAN : SetTypingStatus(typing)
    \/ TypingWriteAck
    \/ TypingWriteRejected
    \/ \E u \in Uids : \E v \in {None, Some(TRUE), Some(FALSE)} : PeerTypingWrite(1, u, v)
    \/ SendMessage(TextHello)
    \/ SendSetMessage
    \/ SendSetLastMessage
    \/ SendSetLastMessageTime
    \/ SendClearTyping
    \/ SendWriteRejected

SpecTyping == InitObserve /\ [][NextTyping]_vars

(***************************************************************************)
(* Properties of send.                                                     *)
(***************************************************************************)
Emotions == {"neutral", "happy", "sad", "angry", "stressed", "anxious"}

\* sendMessage has returned the emotion tag.
SendSucceeded == send.pc = "idle" /\ send.result \in Emotions

\* The step is a call of sendMessage with a text the oracle flags as toxic.
ToxicSendStep == send.pc = "idle" /\ send' # send /\ ToxicityOf[send'.text]

\* The trimmed input texts the oracle flags, and those it does not.
FlaggedTrimmed == { Trim(t) : t \in { x \in AllTexts : DetectToxicity(Trim(x)) } }

UnflaggedTrimmed == { Trim(t) : t \in { x \in AllTexts : ~DetectToxicity(Trim(x)) } }

\* C1: a send of a text the toxicity oracle flags writes nothing (no message
\* record, no key generated, lastMessage and lastMessageTime unchanged, no
\* typing write) and, once the oracle has been asked, ends with the content
\* error; no stored message ever carries a text the oracle flags.
C1_ToxicSendRejected ==
    /\ [][ToxicSendStep =>
            (/\ UNCHANGED storeMsgVars
             /\ send'.pc = "idle"
             /\ send'.result \in {"toxic", "undefined"}
             /\ ((chatId # NoChat /\ user # NoUser /\ userProfile # None)
                    => send'.result = "toxic"))]_vars
    /\ [](\A c \in ChatIds : \A k \in MsgIds :
            (IsSome(dbMessages[c][k].text) =>
                (/\ Get(dbMessages[c][k].text) \in UnflaggedTrimmed
                 /\ Get(dbMessages[c][k].text) \notin FlaggedTrimmed)))

\* A toxic send was rejected while the chat already held a message.
C1_Witness ==
    /\ send.result = "toxic"
    /\ send.text = TextToxic
    /\ \E k \in MsgIds : MsgExists(1, k)
    /\ IsSome(dbChats[1].lastMessage)

\* The step adds the record of the send in flight, with the trimmed text, and
\* changes no other message record.
C2_RecordCreated ==
    /\ ~MsgExists(send.chat, send.key)
    /\ dbMessages'[send.chat][send.key].text = Some(Trim(send.text))
    /\ \A c \in ChatIds : \A k \in MsgIds :
          (c # send.chat \/ k # send.key) => (dbMessages'[c][k] = dbMessages[c][k])

\* C2: a non-toxic send creates exactly one message record, in its first
\* write, holding the trimmed text; its second write sets lastMessage to the
\* first 50 characters of the trimmed text, which is the chat's lastMessage
\* when the send has succeeded.
C2_OneRecordAndPreview ==
    /\ [][((send.pc = "setMessage" /\ send'.pc = "setLastMessage") => C2_RecordCreated)
           /\ ((send' # send /\ ~(send.pc = "setMessage" /\ send'.pc = "setLastMessage"))
                  => dbMessages' = dbMessages)
           /\ ((send.pc = "setLastMessage" /\ send'.pc = "setLastMessageTime")
                  => dbChats'[send.chat].lastMessage
                        = Some(Substring0(Trim(send.text), PreviewLen)))]_vars
    /\ [](SendSucceeded =>
            (/\ dbChats[send.chat].lastMessage = Some(Substring0(Trim(send.text), PreviewLen))
             /\ dbMessages[send.chat][send.key].text = Some(Trim(send.text))))

\* A send of a text longer than 50 characters after trimming has succeeded.
C2_Witness ==
    /\ SendSucceeded
    /\ send.text = TextLong
    /\ Len(Trim(send.text)) > PreviewLen
    /\ Len(Get(dbChats[1].lastMessage)) = PreviewLen
    /\ Cardinality({ k \in MsgIds : MsgExists(1, k) }) = 1

\* C3: when a send has succeeded, the chat's lastMessageTime equals the
\* timestamp of the message record the send created.
C3_LastMessageTimeIsMessageTimestamp ==
    SendSucceeded =>
        dbChats[send.chat].lastMessageTime = dbMessages[send.chat][send.key].timestamp

(***************************************************************************)
(* Properties of delete and of the published message list.                 *)
(***************************************************************************)
\* The end state of a delete: flag set and deletion timestamp present.
SoftDeletedState(c, k) ==
    Truthy(dbMessages[c][k].isDeleted) /\ IsSome(dbMessages[c][k].deletedAt)

\* C6: a delete that completes leaves the message with isDeleted = true and
\* a deletion timestamp; a message in that state stays in it under every
\* further delete, and a further call of delete on it is accepted and issues
\* its writes like the first.
C6_DeleteIdempotent ==
    /\ [][(del.pc = "setDeletedAt" /\ del'.pc = "idle" /\ del'.result = "ok") =>
             SoftDeletedState(del.chat, del.id)']_vars
    /\ [][\A c \in ChatIds : \A k \in MsgIds :
             (SoftDeletedState(c, k) => SoftDeletedState(c, k)')]_vars
    /\ [][(del.pc = "idle" /\ del' # del /\ chatId # NoChat /\ user # NoUser) =>
             (del'.pc = "setIsDeleted" /\ del'.result = "none")]_vars

\* A second delete of an already deleted message has done its first write.
C6_Witness ==
    /\ del.pc = "setDeletedAt"
    /\ del.at = 2
    /\ dbMessages[del.chat][del.id].deletedAt = Some(1)
    /\ Truthy(dbMessages[del.chat][del.id].isDeleted)

\* C7: once the pending update of the message subscription is delivered, the
\* published list holds exactly the stored messages of the observed chat that
\* are not soft-deleted: a stored message is listed until it is deleted, and
\* not after the update that follows its deletion.
C7_PublishedIsUndeleted ==
    (msgSub # NoChat /\ ~msgDirty) =>
        { messages[i].id : i \in DOMAIN messages } =
            { k \in QueryKeys(msgSub) : ~Truthy(dbMessages[msgSub][k].isDeleted) }

\* A published happy message has been deleted; the update is still pending.
C7_Witness ==
    /\ msgSub = 1
    /\ msgDirty
    /\ del.result = "ok"
    /\ SoftDeletedState(1, del.id)
    /\ \E i \in DOMAIN messages :
          /\ messages[i].id = del.id
          /\ messages[i].emotion = Some("happy")
          /\ messages[i].isToxic = Some(FALSE)

(***************************************************************************)
(* Properties of the chat directory.                                       *)
(***************************************************************************)
\* C4: the published chat list is ordered non-increasing by lastMessageTime
\* taken as 0 when missing, so a chat without lastMessageTime is followed
\* only by chats without one.
C4_ChatsSortedByLastMessageTime ==
    \A i \in DOMAIN chats : \A j \in DOMAIN chats :
        (i < j) =>
            (/\ OrZero(chats[i].lastMessageTime) >= OrZero(chats[j].lastMessageTime)
             /\ (chats[i].lastMessageTime = None => chats[j].lastMessageTime = None))

\* A published list whose order differs from the key order of the index:
\* the younger chat has the later message, the older chat has none.
C4_Witness ==
    /\ Len(chats) = 2
    /\ chats[1].id > chats[2].id
    /\ IsSome(chats[1].lastMessageTime)
    /\ chats[2].lastMessageTime = None

\* The step is a call of createChat by a present user with a non-group chat
\* of the caller and the requested participant in the cached list.
C5_CallWithCachedMatch ==
    /\ create.pc = "idle"
    /\ create' # create
    /\ user # NoUser
    /\ \E i \in DOMAIN chats : IsExistingDirect(chats[i], user, create'.other)

\* C5: createChat called with a matching non-group chat in the cached list
\* writes nothing (no chat record, no index entry, no key generated, no
\* write issued) and returns the id of such a cached chat.
C5_ExistingChatReused ==
    [][C5_CallWithCachedMatch =>
        (/\ UNCHANGED <<dbChats, dbUserChats, nextChatKey, writeQueue, dbMessages, dbTyping>>
         /\ create'.pc = "idle"
         /\ create'.result = "existing"
         /\ \E i \in DOMAIN chats :
               /\ chats[i].id = create'.id
               /\ IsExistingDirect(chats[i], user, create'.other))]_vars

\* createChat has returned the cached direct chat with B; the cache also
\* holds the group chat of A and B, which is not returned.
C5_Witness ==
    /\ create.pc = "idle"
    /\ create.result = "existing"
    /\ create.other = "B"
    /\ create.id = 2
    /\ \E i \in DOMAIN chats : chats[i].id = 1 /\ Truthy(chats[i].isGroup)

(***************************************************************************)
(* Properties of the break reminder and of the daily limit.                *)
(***************************************************************************)
\* The callback of the break check timer runs in this step.
BreakCheckStep == checkElapsed /\ ~checkElapsed'

\* A break reminder is surfaced in this step.
BreakReminderSurfaced == breakToasts' # breakToasts

\* At least 30 minutes have passed since the session start and since the
\* last reminder.
BothIntervalsPassed ==
    /\ sessionStartTime # None
    /\ now - Get(sessionStartTime) >= BreakInterval
    /\ now - lastBreakReminder >= BreakInterval

\* C8: with a session started at t0 and no reminder before, no reminder is
\* surfaced before t0+30 and none less than 30 minutes after the previous
\* one; a check surfaces a reminder exactly when 30 minutes have passed both
\* since the session start and since the last reminder (so the check at
\* t0+30 does, a check at t0+45 after it does not, and a check at t0+61
\* after those does again); surfacing raises one toast, shows the reminder
\* and sets the last-reminder time to the current time.
C8_BreakReminderSchedule ==
    /\ [](\A i \in DOMAIN breakToasts :
            /\ breakToasts[i] >= Get(sessionStartTime) + BreakInterval
            /\ (i > 1 => breakToasts[i] - breakToasts[i - 1] >= BreakInterval))
    /\ [][BreakCheckStep => (BreakReminderSurfaced <=> BothIntervalsPassed)]_vars
    /\ [][BreakReminderSurfaced =>
            (/\ BreakCheckStep
             /\ breakToasts' = Append(breakToasts, now)
             /\ showBreakReminder'
             /\ lastBreakReminder' = now)]_vars

\* The reminder was surfaced by the check at t0+30 and again by the check at
\* t0+61, and is shown.
C8_Witness ==
    /\ now = SessionEpoch + 2 * BreakInterval + 1
    /\ sessionStartTime = Some(SessionEpoch)
    /\ breakToasts = <<SessionEpoch + BreakInterval, SessionEpoch + 2 * BreakInterval + 1>>
    /\ lastBreakReminder = now
    /\ showBreakReminder

\* isLimitReached
LimitReached == todayUsage >= dailyLimit

\* C9: the limit toast is raised once in exactly the steps in which the usage
\* goes from below the daily limit to at or above it: the tick from 119 to
\* 120 under a limit of 120 raises one, the tick from 120 to 121 raises none,
\* and another is raised only after the usage was below the limit again.
C9_LimitToastOncePerCrossing ==
    /\ [][(limitToasts' # limitToasts) =>
            (limitToasts' = limitToasts + 1 /\ ~LimitReached /\ LimitReached')]_vars
    /\ [][(~LimitReached /\ LimitReached' /\ isConfigured) =>
            (limitToasts' = limitToasts + 1)]_vars

\* The usage has crossed the limit a second time and then gone one minute
\* beyond it: two toasts were raised.
C9_Witness ==
    /\ limitToasts = 2
    /\ dailyLimit = DefaultDailyLimit
    /\ todayUsage = DefaultDailyLimit + 1

(***************************************************************************)
(* Properties of logout.                                                   *)
(***************************************************************************)
\* C10: every call of logout that has ended, also one that ended because the
\* status write or the last-seen write was rejected, has invoked the
\* provider's sign-out.
C10_LogoutAlwaysSignsOut ==
    (logout.pc = "idle" /\ logout.result # "none") => logout.signedOut

(***************************************************************************)
(* Properties of the subscriptions of useChat.                             *)
(***************************************************************************)
\* C16: once the pending update of the typing subscription is delivered, the
\* published typing ids are exactly the ids whose entry in the typing map of
\* the observed chat is present and true, the observer's own id left out.
C16_TypingIsOthersTrue ==
    (msgSub # NoChat /\ ~typDirty) =>
        isTyping = { u \in Uids : /\ dbTyping[msgSub][u] = Some(TRUE)
                                  /\ u # user }

\* Both entries of the typing map are true and delivered: only B is published.
C16_Witness ==
    /\ msgSub = 1
    /\ ~typDirty
    /\ dbTyping[1]["A"] = Some(TRUE)
    /\ dbTyping[1]["B"] = Some(TRUE)
    /\ isTyping = {"B"}

\* C17: no published message list holds a message whose isDeleted flag is set.
C17_NoDeletedPublished ==
    \A i \in DOMAIN messages : messages[i].isDeleted # Some(TRUE)

\* A list was published while a message of the chat carries the flag: the
\* list holds the other message only.
C17_Witness ==
    /\ msgSub = 1
    /\ ~msgDirty
    /\ Len(messages) = 1
    /\ \E k \in MsgIds : /\ Truthy(dbMessages[1][k].isDeleted)
                          /\ k # messages[1].id
                          /\ k \in QueryKeys(1)

\* C18: every published message list is ordered by timestamp, non-decreasing.
C18_PublishedOrderedByTimestamp ==
    \A i \in DOMAIN messages : \A j \in DOMAIN messages :
        (i < j) => (Get(messages[i].timestamp) <= Get(messages[j].timestamp))

(***************************************************************************)
(* Properties of a send as ChatView and the hook perform it.               *)
(***************************************************************************)
\* The step is a call of sendMessage or handleSend with a text that is empty
\* once trimmed.
BlankSendStep == send.pc = "idle" /\ send' # send /\ TrimOf[send'.text] = <<>>

\* C15: a send of an empty or whitespace-only text is rejected locally: the
\* step writes nothing to the store, issues no write, generates no key and
\* does not ask the toxicity oracle, whatever the chat, the user and the
\* profile are.
C15_BlankSendRejectedLocally ==
    [][BlankSendStep =>
          (/\ UNCHANGED <<storeMsgVars, writeQueue, dbUsers, dbUserChats>>
           /\ ~send'.screened
           /\ send'.pc = "idle"
           /\ send'.result = "undefined")]_vars

\* A whitespace-only send was made with a chat, a user and a profile present.
C15_Witness ==
    /\ send.text = TextBlank
    /\ send.result = "undefined"
    /\ ~send.screened
    /\ chatId = 1
    /\ user = "A"
    /\ userProfile # None
    /\ writeQueue = <<>>

\* C20: a send the user started through handleSend with a non-blank text has
\* ended either in success, its message written, or with the error toast
\* shown, and the sending flag is false again.
C20_SendEndsInSuccessOrError ==
    (send.handler /\ send.pc = "idle" /\ send.result # "none" /\ TrimOf[send.text] # <<>>) =>
        (/\ ~send.sending
         /\ \/ send.result \in Emotions /\ MsgExists(send.chat, send.key)
            \/ send.toast = "error")

(***************************************************************************)
(* Properties of createChat when it creates.                               *)
(***************************************************************************)
\* The step is a call of createChat by a user whose cached list holds no
\* non-group chat with both ids.
CallWithoutCachedMatch ==
    /\ create.pc = "idle"
    /\ create' # create
    /\ user # NoUser
    /\ \A i \in DOMAIN chats : ~IsExistingDirect(chats[i], user, create'.other)

\* The step is the return of createChat after its third write.
CreateReturnsNew == create.pc = "setOtherIndex" /\ create'.result = "created"

\* C14: createChat called with no matching chat in the cached list takes one
\* fresh key, under which no chat is stored; no step of the operation touches
\* another chat record; and when it returns, after its three writes, the
\* chat under that key is a non-group chat with participants [caller, other],
\* the key is in the chat index of both, and the key is the value returned.
C14_CreatesOneDirectChat ==
    [][/\ (CallWithoutCachedMatch =>
              (/\ create'.pc = "setChat"
               /\ create'.id = nextChatKey
               /\ nextChatKey' = nextChatKey + 1
               /\ dbChats[create'.id] = NoChatRec
               /\ UNCHANGED <<dbChats, dbUserChats>>))
       /\ ((create' # create /\ create.pc # "idle") =>
              (/\ \A c \in ChatIds : (c # create.id) => (dbChats'[c] = dbChats[c])
               /\ \A c \in ChatIds : \A u \in Uids :
                     (c # create.id) => ((c \in dbUserChats'[u]) <=> (c \in dbUserChats[u]))))
       /\ (CreateReturnsNew =>
              (/\ create'.id = create.id
               /\ create'.pc = "idle"
               /\ dbChats'[create.id].participants = Some(<<create.uid, create.other>>)
               /\ dbChats'[create.id].isGroup = Some(FALSE)
               /\ create.id \in dbUserChats'[create.uid]
               /\ create.id \in dbUserChats'[create.other]))]_vars

\* createChat has created chat 2 between A and B while the cached list held
\* only their group chat.
C14_Witness ==
    /\ create.pc = "idle"
    /\ create.result = "created"
    /\ create.id = 2
    /\ user = "A"
    /\ dbChats[1].isGroup = Some(TRUE)
    /\ dbChats[2].participants = Some(<<"A", "B">>)
    /\ 2 \in dbUserChats["A"]
    /\ 2 \in dbUserChats["B"]

(***************************************************************************)
(* Properties of resetDailyUsage.                                          *)
(***************************************************************************)
\* The step issues a todayUsage write of 0: the usage timer writes its
\* incremented count, which is at least 1, so the step is a reset.
ResetStep == usageWrite = None /\ usageWrite' # None /\ Get(usageWrite').value = 0

\* C19: resetDailyUsage sets the local todayUsage to 0 and issues the write
\* of 0 to users/<current user>/todayUsage, which the store holds once the
\* write is acknowledged; with no current user no step changes the local
\* todayUsage, issues a write or changes a stored todayUsage.
C19_ResetZeroesUsage ==
    /\ [][ResetStep =>
            (/\ user # NoUser
             /\ todayUsage' = 0
             /\ usageWrite' = Some([uid |-> user, value |-> 0]))]_vars
    /\ [][(usageWrite # None /\ usageWrite' = None /\ dbUsers' # dbUsers) =>
            (dbUsers' = [dbUsers EXCEPT ![Get(usageWrite).uid].todayUsage =
                                            Some(Get(usageWrite).value)])]_vars
    /\ [][(user = NoUser) =>
            (/\ UNCHANGED <<todayUsage, usageWrite, writeQueue>>
             /\ \A u \in Uids : dbUsers'[u].todayUsage = dbUsers[u].todayUsage)]_vars

\* After minutes of use were counted, a reset was made and acknowledged: the
\* local and the stored todayUsage of A are 0.
C19_Witness ==
    /\ user = "A"
    /\ usageWrite = None
    /\ todayUsage = 0
    /\ dbUsers["A"].todayUsage = Some(0)
    /\ limitToasts >= 1

(***************************************************************************)
(* Properties of signInWithGoogle and signUp.                              *)
(***************************************************************************)
\* The record below users/{u} carries the defaults of a new profile.
HasDefaultProfile(u) ==
    /\ dbUsers[u].uid = Some(u)
    /\ dbUsers[u].dailyUsageLimit = Some(120)
    /\ dbUsers[u].todayUsage = Some(0)
    /\ dbUsers[u].safetyMode = Some(FALSE)

\* The processing of a Google sign-in has finished without a rejected write:
\* the auth-state handler has run and its status write is committed, and the
\* one-time listener has run and its write, if it issued one, is committed.
GoogleProcessed ==
    /\ google.pc = "idle"
    /\ google.result \in {"exists", "created"}
    /\ ~authPending
    /\ presence.pc = "idle"
    /\ user = google.uid
    /\ dbUsers[google.uid].status = Some("online")

\* C11: once the processing of a first-ever Google sign-in of a user without
\* a record below users/{uid} has finished, that record is a full profile
\* (usage limit 120, usage 0, safety mode off), however the existence check
\* and the presence write of the auth-state handler interleave.
C11_FirstGoogleSignInCreatesProfile ==
    (GoogleProcessed /\ google.first) => HasDefaultProfile(google.uid)

\* The step is the acknowledgement of the profile write of signUp.
SignUpSucceeds == signup.pc = "setProfile" /\ signup'.result = "ok"

\* The step is the rejection of the profile write of signUp.
SignUpProfileWriteFails == signup.pc = "setProfile" /\ signup'.result = "error"

\* C12: when signUp has succeeded the record below users/{uid} carries usage
\* limit 120, usage 0 and safety mode off, whether the presence write of the
\* auth-state handler was committed before or after the profile write; when
\* the profile write is rejected the account exists, with its display name,
\* and the record carries none of these fields.
C12_SignUpProfile ==
    /\ []((signup.pc = "idle" /\ signup.result = "ok") => HasDefaultProfile(signup.uid))
    /\ [][SignUpSucceeds =>
            (/\ accounts'[signup.uid] = Account(signup.name)
             /\ dbUsers'[signup.uid].displayName = Some(signup.name))]_vars
    /\ [][SignUpProfileWriteFails =>
            (/\ accounts'[signup.uid] = Account(signup.name)
             /\ dbUsers'[signup.uid].dailyUsageLimit = None
             /\ dbUsers'[signup.uid].todayUsage = None
             /\ dbUsers'[signup.uid].safetyMode = None
             /\ dbUsers'[signup.uid].uid = None)]_vars

\* signUp of A has succeeded after the presence write of the auth-state
\* handler was committed, and the handler has finished.
C12_Witness ==
    /\ signup.pc = "idle"
    /\ signup.result = "ok"
    /\ signup.uid = "A"
    /\ user = "A"
    /\ presence.pc = "idle"
    /\ "A" \in profSub
    /\ HasDefaultProfile("A")
    /\ accounts["A"] = Account("Alice")

(***************************************************************************)
(* Properties of updateUserProfile.                                        *)
(***************************************************************************)
\* The step is a call of updateUserProfile that issues its write.
UpdateCallStep == update.pc = "idle" /\ update'.pc = "set"

\* C13: updateUserProfile writes the whole record below users/{uid}: every
\* field of the partial record with the value given, and every other field
\* with its value in the local snapshot at the time of the call (no value
\* when the snapshot is null), whatever the store holds; the acknowledged
\* write replaces the stored record by that record.
C13_UpdateWritesLocalSnapshot ==
    /\ [][UpdateCallStep =>
            (/\ update'.uid = user
             /\ \A f \in DOMAIN NoProfile :
                   update'.rec[f] =
                      (IF update'.data[f] # None THEN update'.data[f]
                       ELSE IF userProfile = None THEN None
                       ELSE Get(userProfile)[f]))]_vars
    /\ [][(update.pc = "set" /\ update'.result = "ok") =>
            (dbUsers' = [dbUsers EXCEPT ![update.uid] = update.rec])]_vars

\* A switched safety mode on with a snapshot older than the limit another
\* client had stored: the acknowledged write put the snapshot's limit back.
C13_Witness ==
    /\ update.pc = "idle"
    /\ update.result = "ok"
    /\ update.data = PartialSafety
    /\ update.stored.dailyUsageLimit = Some(DefaultDailyLimit + 1)
    /\ dbUsers["A"].dailyUsageLimit = Some(DefaultDailyLimit)
    /\ dbUsers["A"].safetyMode = Some(TRUE)

(***************************************************************************)
(* Properties of the order of the writes of a send.                        *)
(***************************************************************************)
\* The writes of the send in flight that await their acknowledgement.
SendWritesInFlight == Cardinality({ i \in DOMAIN writeQueue : writeQueue[i] = "send" })

\* The steps a send takes from one position to the next.
SendOrder ==
    {<<"idle", "idle">>, <<"idle", "setMessage">>, <<"setMessage", "setLastMessage">>,
     <<"setLastMessage", "setLastMessageTime">>, <<"setLastMessageTime", "setTyping">>,
     <<"setTyping", "idle">>}

\* C27: a non-toxic send writes the message record, then lastMessage, then
\* lastMessageTime, then the sender's typing flag, each step committing one
\* of them and nothing else; at most one of its writes awaits its
\* acknowledgement at any time; and the emotion tag is returned only by the
\* step that commits the typing flag, after the three writes before it.
C27_SendWritesInOrder ==
    /\ [](SendWritesInFlight = (IF send.pc = "idle" THEN 0 ELSE 1))
    /\ [][(send' # send /\ send'.result # "error") =>
            (/\ <<send.pc, send'.pc>> \in SendOrder
             /\ (send.pc = "idle") => UNCHANGED <<dbMessages, dbChats, dbTyping>>
             /\ (send.pc = "setMessage") =>
                    (/\ dbMessages'[send.chat][send.key] = send.message
                     /\ dbMessages[send.chat][send.key] = NoMsg
                     /\ UNCHANGED <<dbChats, dbTyping>>)
             /\ (send.pc = "setLastMessage") =>
                    (/\ dbChats' = [dbChats EXCEPT ![send.chat].lastMessage =
                                                      dbChats'[send.chat].lastMessage]
                     /\ IsSome(dbChats'[send.chat].lastMessage)
                     /\ MsgExists(send.chat, send.key)
                     /\ UNCHANGED <<dbMessages, dbTyping>>)
             /\ (send.pc = "setLastMessageTime") =>
                    (/\ dbChats' = [dbChats EXCEPT ![send.chat].lastMessageTime =
                                                      dbChats'[send.chat].lastMessageTime]
                     /\ IsSome(dbChats'[send.chat].lastMessageTime)
                     /\ UNCHANGED <<dbMessages, dbTyping>>)
             /\ (send.pc = "setTyping") =>
                    (/\ dbTyping' = [dbTyping EXCEPT ![send.chat][send.uid] = Some(FALSE)]
                     /\ send'.result = EmotionOf[send.text]
                     /\ IsSome(dbChats[send.chat].lastMessageTime)
                     /\ UNCHANGED <<dbMessages, dbChats>>)
             /\ (send'.result \in Emotions) => (send.pc = "setTyping"))]_vars

\* A second send has returned its emotion tag: both message records are
\* stored and the typing flag of the sender is false.
C27_Witness ==
    /\ send.pc = "idle"
    /\ send.result \in Emotions
    /\ send.key = 2
    /\ MsgExists(1, 1)
    /\ MsgExists(1, 2)
    /\ dbTyping[1]["A"] = Some(FALSE)
    /\ writeQueue = <<>>

(***************************************************************************)
(* Properties of the auth-state handler.                                   *)
(***************************************************************************)
\* C23: the local profile is absent whenever the current user is absent, and
\* a local profile that names a user names the current user.
C23_ProfileFollowsUser ==
    /\ (user = NoUser) => (userProfile = None)
    /\ (userProfile # None /\ IsSome(Get(userProfile).uid)) =>
            (Get(userProfile).uid = Some(user))

(***************************************************************************)
(* Properties of the ownership of the fields below users/{uid}.            *)
(***************************************************************************)
\* C25: a step that changes a stored status or lastSeen is the commit of a
\* write of the auth-state handler or of logout, and a step that changes a
\* stored todayUsage is the commit of a write of the usage timer or of
\* resetDailyUsage; the commit of an updateUserProfile write changes none of
\* the three.
C25_FieldOwnership ==
    [][\A u \in Uids :
          /\ (dbUsers'[u].status # dbUsers[u].status \/ dbUsers'[u].lastSeen # dbUsers[u].lastSeen)
                => (\/ presence.pc = "setOnline" /\ presence'.pc = "idle"
                    \/ logout.pc \in {"setStatus", "setLastSeen"} /\ logout' # logout)
          /\ (dbUsers'[u].todayUsage # dbUsers[u].todayUsage)
                => (usageWrite # None /\ usageWrite' = None)]_vars

\* C26: a run of the handler for a present user issues the online write and
\* does nothing else until the write is acknowledged; with the
\* acknowledgement it registers the on-disconnect actions and then opens the
\* profile subscription; a user's on-disconnect actions and profile
\* subscription appear only in the step that commits that user's online
\* write, and not at all when the write is rejected.
C26_HandlerOrder ==
    /\ [](presence.steps \in {<<>>, <<"setOnline">>, <<"setOnline", "rejected">>,
                              <<"setOnline", "acked", "onDisconnect", "onValue">>})
    /\ [][(presence.pc = "idle" /\ presence'.pc = "setOnline") =>
                (/\ writeQueue' = Append(writeQueue, "presence")
                 /\ UNCHANGED <<disconnectHooks, profSub, dbUsers>>)]_vars
    /\ [][\A u \in Uids :
                ((u \in disconnectHooks' \ disconnectHooks) \/ (u \in profSub' \ profSub)) =>
                    (/\ presence.pc = "setOnline"
                     /\ presence.uid = u
                     /\ Head(writeQueue) = "presence"
                     /\ dbUsers'[u].status = Some("online")
                     /\ u \in disconnectHooks'
                     /\ u \in profSub')]_vars
    /\ [][(presence.pc = "setOnline" /\ Len(presence'.steps) = 2) =>
                UNCHANGED <<disconnectHooks, profSub, dbUsers>>]_vars

\* The handler has finished for A: the online write is committed, the
\* on-disconnect actions are registered and the subscription is open.
C26_Witness ==
    /\ presence.pc = "idle"
    /\ Len(presence.steps) = 4
    /\ user = "A"
    /\ dbUsers["A"].status = Some("online")
    /\ "A" \in disconnectHooks
    /\ "A" \in profSub

(***************************************************************************)
(* useChat: the active chat changes.                                       *)
(***************************************************************************)
\* Variant of Resubscribe: the subscriptions of the chat shown before stay
\* open.
StaleSubscription(c) == IF msgSub # NoChat THEN msgSub ELSE c

\* The effect of useChat for chat c: no subscription without a chat or a
\* user, otherwise the subscriptions of c.
Resubscribe(c) == IF c # NoChat /\ user # NoUser THEN c ELSE NoChat

\* ChatView is given chat c, or is discarded (NoChat): the cleanup of the
\* effect detaches the listeners of the chat shown before and the effect runs
\* for c.  Each new subscription delivers a first snapshot; the published
\* list and typing ids stay as they are until then.
SwitchChat(c) ==
    /\ c # chatId
    /\ chatId' = c
    /\ msgSub' = Resubscribe(c)
    /\ msgDirty' = (msgSub' # NoChat)
    /\ typDirty' = (msgSub' # NoChat)
    /\ loading' = (IF c = NoChat \/ user = NoUser THEN FALSE ELSE loading)
    /\ UNCHANGED <<now, user, userProfile, authVars, wellVars, acctVars, viewVars, isTyping, typingWrites,
                   storeMsgVars, messages, send, del, writeQueue, dirVars>>

\* A observes chat 1; chats 1 and 2 are direct chats of A and B.
InitSwitch ==
    /\ now = 1
    /\ user = "A"
    /\ userProfile = Some(InitialProfile(user, "Alice"))
    /\ chatId = 1
    /\ dbMessages = [c \in ChatIds |-> [k \in MsgIds |-> NoMsg]]
    /\ dbChats = [c \in ChatIds |-> IF c \in {1, 2} THEN DirectChat("A", "B", 1) ELSE NoChatRec]
    /\ dbTyping = [c \in ChatIds |-> [u \in Uids |-> None]]
    /\ nextKey = 1
    /\ InitHook
    /\ InitDirectoryIdle
    /\ InitSessionIdle

\* A moves between the chats while B writes messages and typing flags to both.
NextSwitch ==
    \/ \E c \in {1, 2, NoChat} : SwitchChat(c)
    \/ MessagesSnapshot
    \/ TypingSnapshot
    \/ \E c \in {1, 2} : PeerSendMessage(c, 1)
    \/ \E c \in {1, 2} : \E k \in MsgIds : PeerDeleteMessage(c, k)
    \/ \E c \in {1, 2} : \E v \in {None, Some(TRUE), Some(FALSE)} : PeerTypingWrite(c, "B", v)

SpecSwitch == InitSwitch /\ [][NextSwitch]_vars

\* C22: once the active chat has changed, or the view is discarded, the
\* subscriptions of the chat shown before are gone: the only subscriptions
\* open are those of the active chat, and every step that changes the
\* published message list or the published typing ids publishes the content
\* of the active chat; a write to any other chat changes neither.
C22_OldChatTornDown ==
    /\ [](msgSub \in {chatId, NoChat})
    /\ [][(messages' # messages) =>
              (chatId' # NoChat /\ messages' = VisibleMessages(chatId'))]_vars
    /\ [][(isTyping' # isTyping) =>
              (chatId' # NoChat /\ isTyping' = TypingOthers(dbTyping[chatId'], user))]_vars
    /\ [][(\E c \in ChatIds : c # chatId /\ (dbMessages'[c] # dbMessages[c] \/ dbTyping'[c] # dbTyping[c])) =>
              UNCHANGED <<messages, isTyping, msgDirty, typDirty>>]_vars

\* A has moved to chat 2 and has received all of it, while chat 1 holds a
\* message and a typing flag of B that the published values do not show.
C22_Witness ==
    /\ chatId = 2
    /\ ~msgDirty
    /\ ~typDirty
    /\ messages = VisibleMessages(2)
    /\ Len(messages) = 1
    /\ Len(VisibleMessages(1)) = 1
    /\ dbTyping[1]["B"] = Some(TRUE)
    /\ dbTyping[2]["B"] # Some(TRUE)
    /\ isTyping = {}

(***************************************************************************)
(* The operations of several writes and the rejection of one of them.      *)
(***************************************************************************)
\* Either A is signed in and observes chat 1, or nobody is signed in and A
\* has no account yet.
InitWrites == InitObserve \/ InitAccount

\* Sends, the creation of a direct chat and of a group by the signed-in
\* user, and the sign-up of A with the auth-state handler that follows it.
NextWrites ==
    \/ SendMessage(TextHello)
    \/ SendSetMessage
    \/ SendSetLastMessage
    \/ SendSetLastMessageTime
    \/ SendClearTyping
    \/ SendWriteRejected
    \/ CreateChat("B")
    \/ CreateSetChat
    \/ CreateSetOwnIndex
    \/ CreateSetOtherIndex
    \/ CreateWriteRejected
    \/ CreateGroupChat(<<"B">>, "team")
    \/ CreateGroupSetChat
    \/ CreateGroupSetIndex
    \/ CreateGroupWriteRejected
    \/ SignUp("A", "Alice")
    \/ SignUpUpdateProfile
    \/ SignUpSetProfile
    \/ SignUpWriteRejected
    \/ AuthStateChanged
    \/ PresenceSetOnline
    \/ PresenceWriteRejected

SpecWrites == InitWrites /\ [][NextWrites]_vars

\* Operation op has a write issued and not yet answered.
WriteInFlight(op) == \E i \in DOMAIN writeQueue : writeQueue[i] = op

\* The writes a send has committed before the one it awaits at position pc.
SendCommittedBefore(pc) ==
    /\ (pc # "setMessage") => (dbMessages[send.chat][send.key] = send.message)
    /\ (pc \in {"setLastMessageTime", "setTyping"}) =>
           (dbChats[send.chat].lastMessage = Some(PreviewOf[send.text]))
    /\ (pc = "setTyping") => (dbChats[send.chat].lastMessageTime = Some(send.lastTime))

\* The writes createChat has committed before the one it awaits at pc, and
\* the index entries it has not.
CreateCommittedBefore(pc) ==
    /\ (pc = "setChat") => (dbChats[create.id] = NoChatRec)
    /\ (pc # "setChat") => (dbChats[create.id] = create.rec)
    /\ (create.id \in dbUserChats[create.uid]) <=> (pc = "setOtherIndex")
    /\ create.id \notin dbUserChats[create.other]

\* The writes createGroupChat has committed before the one it awaits at pc:
\* the chat record after the first, and the index entries of exactly the
\* participants the loop has passed.
GroupCommittedBefore(pc) ==
    /\ (pc = "setGroupChat") => (dbChats[create.id] = NoChatRec)
    /\ (pc # "setGroupChat") => (dbChats[create.id] = create.rec)
    /\ \A u \in Uids :
          (create.id \in dbUserChats[u]) <=>
              (/\ pc = "setGroupIndex"
               /\ u \in Range(Get(create.rec.participants))
               /\ u \notin Range(create.rest))

\* C28: when the store rejects the write a send, createChat, createGroupChat
\* or signUp awaits, the step commits nothing, the writes the operation made
\* before are in the store and the later ones are not, the operation ends
\* with an error for its caller and has no write in flight; an operation
\* that is not running has no write in flight, so none is issued afterwards.
\* The ids of a new chat are fresh, so a creation goes on only by committing
\* the write it awaited.
C28_FailureKeepsEarlierWrites ==
    /\ [](/\ (send.pc = "idle") => ~WriteInFlight("send")
          /\ (create.pc = "idle") => ~WriteInFlight("create")
          /\ (signup.pc \in {"idle", "updateProfile"}) => ~WriteInFlight("signup"))
    /\ [][(send.pc # "idle" /\ send'.result = "error") =>
              (/\ send'.pc = "idle"
               /\ UNCHANGED <<dbMessages, dbChats, dbTyping>>
               /\ SendCommittedBefore(send.pc)
               /\ ~WriteInFlight("send")')]_vars
    /\ [][(create.pc \in {"setChat", "setOwnIndex", "setOtherIndex"} /\ create' # create
                /\ UNCHANGED <<dbChats, dbUserChats>>) =>
              (/\ create'.pc = "idle"
               /\ create'.result = "error"
               /\ CreateCommittedBefore(create.pc)
               /\ ~WriteInFlight("create")')]_vars
    /\ [][(create.pc \in {"setGroupChat", "setGroupIndex"} /\ create' # create
                /\ UNCHANGED <<dbChats, dbUserChats>>) =>
              (/\ create'.pc = "idle"
               /\ create'.result = "error"
               /\ GroupCommittedBefore(create.pc)
               /\ ~WriteInFlight("create")')]_vars
    /\ [][(signup.pc = "setProfile" /\ signup'.result = "error") =>
              (/\ signup'.pc = "idle"
               /\ dbUsers'[signup.uid] = dbUsers[signup.uid]
               /\ accounts'[signup.uid] = [exists |-> TRUE, displayName |-> Some(signup.name)]
               /\ ~WriteInFlight("signup")')]_vars

\* A send of A has failed at its second write and a group creation at its
\* third: the message is stored without a summary, and the group exists with
\* the index entry of A and without that of B.
C28_Witness ==
    /\ send.pc = "idle"
    /\ send.result = "error"
    /\ dbMessages[1][1] # NoMsg
    /\ dbChats[1].lastMessage = None
    /\ create.pc = "idle"
    /\ create.result = "error"
    /\ Truthy(dbChats[2].isGroup)
    /\ 2 \in dbUserChats["A"]
    /\ 2 \notin dbUserChats["B"]

(***************************************************************************)
(* useChats: the published list after the index has settled.               *)
(***************************************************************************)
\* The directory of A as in InitChats, where the record of chat 1 may also be
\* missing while the index of A names it.
InitResolve ==
    /\ now = 1
    /\ user = "A"
    /\ userProfile = Some(InitialProfile(user, "Alice"))
    /\ chatId = NoChat
    /\ dbMessages = [c \in ChatIds |-> [k \in MsgIds |-> NoMsg]]
    /\ \E first \in {DirectChat("A", "B", 1), NoChatRec} :
          dbChats = [c \in ChatIds |-> IF c = 1 THEN first ELSE NoChatRec]
    /\ dbTyping = [c \in ChatIds |-> [u \in Uids |-> None]]
    /\ nextKey = 1
    /\ InitHook
    /\ dbUserChats = [u \in Uids |-> IF u \in {"A", "B"} THEN {1} ELSE {}]
    /\ nextChatKey = 2
    /\ idxSub = user
    /\ idxDirty = TRUE
    /\ runs = <<>>
    /\ chats = <<>>
    /\ chatsLoading = TRUE
    /\ create = IdleCreate
    /\ InitSessionIdle

SpecResolve == InitResolve /\ [][NextChats]_vars

\* The chat ids of the index of u whose record exists.
IndexedChats(u) == { c \in dbUserChats[u] : ChatNodeExists(c) }

\* The chat ids of a published list, in its order.
ListIds(list) == [i \in DOMAIN list |-> list[i].id]

TrackerMinutes == 2

\* A has been signed in for an hour less TrackerMinutes minutes; the profile
\* is loaded and the stored usage is StoredUsage.
InitTracker ==
    /\ now = SessionEpoch + MaxMinutes - TrackerMinutes
    /\ user = "A"
    /\ userProfile = Some([InitialProfile("A", "Alice") EXCEPT !.todayUsage = Some(StoredUsage)])
    /\ chatId = NoChat
    /\ InitStore
    /\ InitHook
    /\ InitDirectoryIdle
    /\ isConfigured = TRUE
    /\ authUser = user
    /\ authPending = FALSE
    /\ authLoading = FALSE
    /\ dbUsers = [u \in Uids |-> [InitialProfile(u, "Alice") EXCEPT !.todayUsage = Some(StoredUsage)]]
    /\ profSub = {"A"}
    /\ profDirty = {}
    /\ disconnectHooks = {"A"}
    /\ presence = IdlePresence
    /\ logout = IdleLogout
    /\ sessionStartTime = Some(SessionEpoch)
    /\ todayUsage = StoredUsage
    /\ dailyLimit = DefaultDailyLimit
    /\ showBreakReminder = FALSE
    /\ lastBreakReminder = 0
    /\ checkElapsed = FALSE
    /\ breakToasts = <<>>
    /\ limitToasts = 0
    /\ usageWrite = None
    /\ InitExtrasIdle

\* Both timers of the tracker, the usage writes, logout and the auth-state
\* handler that follows the sign-out.
NextTracker ==
    \/ MinuteTick
    \/ CheckBreak
    \/ UsageTick
    \/ UsageWriteAck
    \/ UsageWriteRejected
    \/ ProfileSnapshot("A")
    \/ Logout
    \/ LogoutSetStatus
    \/ LogoutSetLastSeen
    \/ LogoutSignOut
    \/ LogoutWriteRejected
    \/ AuthStateChanged

SpecTracker == InitTracker /\ [][NextTracker]_vars

\* C24: without a current user there is no session and no elapsed timer
\* period awaiting its callback; a step taken without a current user raises
\* no break reminder and issues no todayUsage write; and every todayUsage
\* write is issued under the id of the user who is current when it is issued.
C24_NoTimerAfterSignOut ==
    /\ []((user = NoUser) => (sessionStartTime = None /\ ~checkElapsed))
    /\ [][(user = NoUser) =>
              (/\ breakToasts' = breakToasts
               /\ lastBreakReminder' = lastBreakReminder
               /\ usageWrite' \in {usageWrite, None})]_vars
    /\ [][(usageWrite' # usageWrite /\ usageWrite' # None) =>
              (/\ user # NoUser
               /\ user' = user
               /\ Get(usageWrite').uid = user)]_vars

\* A has signed out after the tracker wrote usage and raised a break
\* reminder, and a minute has passed since: nothing of the tracker is left.
C24_Witness ==
    /\ user = NoUser
    /\ logout.signedOut
    /\ ~authPending
    /\ Len(breakToasts) = 1
    /\ dbUsers["A"].todayUsage = Some(StoredUsage + 1)
    /\ now = SessionEpoch + MaxMinutes
    /\ usageWrite = None

(***************************************************************************)
(* AuthProvider: the mount effect, and ProtectedRoute.                     *)
(***************************************************************************)
\* Variant of SubscriptionAtMount: onAuthStateChanged is called whatever the
\* configuration.
SubscriptionAlways(configured) == "open"

\* The mount effect returns before onAuthStateChanged when the environment
\* is not configured or getFirebaseServices() throws.
SubscriptionAtMount(configured) == IF configured THEN "open" ELSE "none"

\* The mount effect of AuthProvider; servicesOk tells whether
\* getFirebaseServices() returns.  Before the effect isConfigured is
\* envConfigured, after it envConfigured && !configError.  The subscription
\* delivers the current auth state as its first event.
MountAuthProvider(servicesOk) ==
    /\ authSub = "unmounted"
    /\ isConfigured' = (isConfigured /\ servicesOk)
    /\ authSub' = SubscriptionAtMount(isConfigured')
    /\ authPending' = (authSub' = "open")
    /\ authLoading' = (IF isConfigured' THEN authLoading ELSE FALSE)
    /\ UNCHANGED <<now, user, userProfile, typVars, acctVars, typingTimer, msgVars, dirVars,
                   authUser, dbUsers, profSub, profDirty, disconnectHooks, presence, logout,
                   wellVars>>

\* What ProtectedRoute renders.
ProtectedRoute ==
    IF authLoading THEN "spinner"
    ELSE IF ~isConfigured \/ user = NoUser THEN "redirect"
    ELSE "children"

\* The page loads: AuthProvider is rendered and its effect has not run; the
\* environment is configured or not, and the identity provider holds a
\* session of A or none.
InitMount ==
    /\ now = 1
    /\ user = NoUser
    /\ userProfile = None
    /\ chatId = NoChat
    /\ InitStore
    /\ InitHook
    /\ InitDirectoryIdle
    /\ isConfigured \in BOOLEAN
    /\ authUser \in {"A", NoUser}
    /\ authPending = FALSE
    /\ authLoading = TRUE
    /\ dbUsers = [u \in Uids |-> InitialProfile(u, "Alice")]
    /\ profSub = {}
    /\ profDirty = {}
    /\ disconnectHooks = {}
    /\ presence = IdlePresence
    /\ logout = IdleLogout
    /\ sessionStartTime = None
    /\ todayUsage = 0
    /\ dailyLimit = DefaultDailyLimit
    /\ showBreakReminder = FALSE
    /\ lastBreakReminder = 0
    /\ checkElapsed = FALSE
    /\ breakToasts = <<>>
    /\ limitToasts = 0
    /\ usageWrite = None
    /\ typDirty = FALSE
    /\ isTyping = {}
    /\ typingWrites = <<>>
    /\ accounts = [u \in Uids |-> Account("Alice")]
    /\ signup = IdleSignUp
    /\ google = IdleGoogle
    /\ update = IdleUpdate
    /\ authSub = "unmounted"
    /\ typingTimer = None

\* The effect runs after the first render, before anything else happens.
NextMount ==
    \/ \E servicesOk \in BOOLEAN : MountAuthProvider(servicesOk)
    \/ (authSub # "unmounted" /\ NextAuth)

SpecMount == InitMount /\ [][NextMount]_vars

\* C21: while the configuration is unusable (the environment is not
\* configured, or the services failed to initialise at mount) the auth state
\* subscription is not open, no auth state is delivered, there is no user and
\* ProtectedRoute does not render its children; once the mount effect has
\* run, loading is false and ProtectedRoute redirects; and the configuration
\* never becomes usable again.
C21_UnconfiguredGatesRoute ==
    /\ [](~isConfigured => (authSub # "open" /\ user = NoUser /\ userProfile = None
                            /\ ProtectedRoute # "children"))
    /\ []((~isConfigured /\ authSub # "unmounted") =>
              (~authLoading /\ ProtectedRoute = "redirect"))
    /\ [][(~isConfigured) => (~isConfigured')]_vars

\* The services failed to initialise, or the environment is not configured,
\* while the identity provider holds a session of A: the effect has run, no
\* subscription is open and time has passed.
C21_Witness ==
    /\ ~isConfigured
    /\ authSub = "none"
    /\ authUser = "A"
    /\ ~authLoading
    /\ now = MaxTime

(***************************************************************************)
(* ChatView: handleInputChange and the typing timeout.                     *)
(***************************************************************************)
\* handleInputChange of the mounted ChatView: setTypingStatus(true) is called
\* without awaiting it, the pending timeout is cleared and a new one is set.
\* The callback of the timeout holds the setTypingStatus of this render,
\* which is bound to the chat and the user of this render.
HandleInputChange ==
    /\ chatId # NoChat
    /\ user # NoUser
    /\ Len(typingWrites) < MaxTypingWrites
    /\ typingWrites' = Append(typingWrites, [chat |-> chatId, uid |-> user, value |-> TRUE])
    /\ Issue("typing")
    /\ typingTimer' = Some([chat |-> chatId, uid |-> user])
    /\ UNCHANGED <<now, user, userProfile, authVars, wellVars, acctVars, authSub, typDirty,
                   isTyping, storeMsgVars, hookVars, send, del, dirVars>>

\* The timeout fires 2000 ms after the last input change:
\* setTypingStatus(false) of the render that set it.
TypingTimeout ==
    /\ typingTimer # None
    /\ Len(typingWrites) < MaxTypingWrites
    /\ typingWrites' = Append(typingWrites, [chat |-> Get(typingTimer).chat,
                                             uid |-> Get(typingTimer).uid, value |-> FALSE])
    /\ Issue("typing")
    /\ typingTimer' = None
    /\ UNCHANGED <<now, user, userProfile, authVars, wellVars, acctVars, authSub, typDirty,
                   isTyping, storeMsgVars, hookVars, send, del, dirVars>>

\* A types and sends in chats 1 and 2 and moves between them; ChatDashboard
\* renders one ChatView and gives it the selected chat.  The store accepts
\* every write.
NextInput ==
    \/ HandleInputChange
    \/ TypingTimeout
    \/ TypingWriteAck
    \/ \E c \in {1, 2} : SwitchChat(c)
    \/ SendMessage(TextHello)
    \/ SendSetMessage
    \/ SendSetLastMessage
    \/ SendSetLastMessageTime
    \/ SendClearTyping

SpecInput == InitSwitch /\ [][NextInput]_vars

\* Timeouts fire, writes are answered and a send goes on to its end.
SpecInputFair ==
    /\ SpecInput
    /\ WF_vars(TypingTimeout)
    /\ WF_vars(TypingWriteAck)
    /\ WF_vars(SendSetMessage \/ SendSetLastMessage \/ SendSetLastMessageTime \/ SendClearTyping)

\* The step is an input change.
InputChange ==
    /\ Len(typingWrites') > Len(typingWrites)
    /\ typingWrites'[Len(typingWrites')].value

\* C30: once A has stopped typing, the typing flag of A is true in no chat
\* from some time on.
C30_TypingEventuallyCleared ==
    (<>[][~InputChange]_vars) =>
        (<>[](dbTyping[1]["A"] # Some(TRUE) /\ dbTyping[2]["A"] # Some(TRUE)))
(***************************************************************************)
(* Properties of the stored message records.                               *)
(***************************************************************************)
\* send, delete and setTypingStatus of one client on chat 1, with the writes
\* acknowledged or rejected in the order they were issued.
NextStream ==
    \/ (nextKey <= MaxDeletable /\ SendMessage(TextHappy))
    \/ SendSetMessage
    \/ SendSetLastMessage
    \/ SendSetLastMessageTime
    \/ SendClearTyping
    \/ SendWriteRejected
    \/ \E id \in MsgIds : DeleteMessage(id)
    \/ DeleteSetIsDeleted
    \/ DeleteSetDeletedAt
    \/ DeleteWriteRejected
    \/ \E typing \in BOOLEAN : SetTypingStatus(typing)
    \/ TypingWriteAck
    \/ TypingWriteRejected

SpecStream == InitDelete /\ [][NextStream]_vars

\* The fields of a message record that sendMessage alone writes.
CreatedFields(r) ==
    <<r.senderId, r.senderName, r.text, r.timestamp, r.emotion, r.isToxic>>

\* C31: under send, delete and setTypingStatus every stored message record
\* keeps its sender id, sender name, text, timestamp, emotion and toxicity
\* verdict in every step; only isDeleted and deletedAt change.
C31_MessageImmutable ==
    [][\A c \in ChatIds : \A k \in MsgIds :
          (MsgExists(c, k) =>
              (CreatedFields(dbMessages[c][k])' = CreatedFields(dbMessages[c][k])))]_vars

\* A sent message has been soft-deleted and a typing write has committed.
C31_Witness ==
    /\ SoftDeletedState(1, 1)
    /\ dbMessages[1][1].text = Some(TrimOf[TextHappy])
    /\ dbMessages[1][1].senderId = Some("A")
    /\ dbTyping[1]["A"] = Some(TRUE)


\* C32: in every state of the store a message has its soft-delete flag set
\* if and only if it has a deletion timestamp.
C32_FlagIffDeletedAt ==
    \A c \in ChatIds : \A k \in MsgIds :
        Truthy(dbMessages[c][k].isDeleted) <=> IsSome(dbMessages[c][k].deletedAt)

\* C40: a write of deleteMessage on an id under which the chat stores no
\* message leaves the records under the chat's messages as they are.
C40_DeleteCreatesNoRecord ==
    [][(del.pc \in {"setIsDeleted", "setDeletedAt"} /\ del'.pc # del.pc
            /\ ~MsgExists(del.chat, del.id)) =>
          (dbMessages'[del.chat] = dbMessages[del.chat])]_vars

(***************************************************************************)
(* Properties of the participants of created chats.                        *)
(***************************************************************************)
\* The participantIds passed to createGroupChat: other users, the caller,
\* one user twice.
GroupArguments == {<<"B">>, <<"A">>, <<"B", "B">>, <<"A", "B">>}

\* createChat and createGroupChat called with every user id, the caller's
\* own included.
NextMembers ==
    \/ IndexSnapshot
    \/ \E r \in 1..MaxRuns : ChatRead(r)
    \/ \E other \in Uids : CreateChat(other)
    \/ CreateSetChat
    \/ CreateSetOwnIndex
    \/ CreateSetOtherIndex
    \/ CreateWriteRejected
    \/ \E participantIds \in GroupArguments : CreateGroupChat(participantIds, "team")
    \/ CreateGroupSetChat
    \/ CreateGroupSetIndex
    \/ CreateGroupWriteRejected

SpecMembers == InitChats /\ [][NextMembers]_vars

\* The entries of a sequence are pairwise distinct.
Distinct(seq) == \A i \in DOMAIN seq : \A j \in DOMAIN seq : (seq[i] = seq[j]) => (i = j)

\* C33: every stored chat record has pairwise distinct participant ids, and
\* every non-group chat has exactly two participants.
C33_ParticipantsDistinct ==
    \A c \in ChatIds :
        (dbChats[c] # NoChatRec) =>
            /\ Distinct(Get(dbChats[c].participants))
            /\ (~Truthy(dbChats[c].isGroup) => (Len(Get(dbChats[c].participants)) = 2))

(***************************************************************************)
(* Properties of the usage timer and its writes.                           *)
(***************************************************************************)
\* A step of the usage timer: it issues a write of a value other than the 0
\* resetDailyUsage writes.
UsageTickStep == usageWrite = None /\ usageWrite' # None /\ Get(usageWrite').value # 0

\* The write in flight fails: it leaves and the store keeps the record.
UsageWriteFails == usageWrite # None /\ usageWrite' = None /\ dbUsers' = dbUsers

\* C34: a usage tick adds exactly 1 to the local todayUsage and issues a
\* write of the new value for the user; when the write fails the local
\* counter keeps its value, so that the next tick writes one more.
C34_TickSurvivesFailedWrite ==
    /\ [][UsageTickStep =>
             (/\ todayUsage' = todayUsage + 1
              /\ usageWrite' = Some([uid |-> user, value |-> todayUsage + 1]))]_vars
    /\ [][UsageWriteFails => (todayUsage' = todayUsage)]_vars

\* C37: the stored todayUsage of a user becomes lower only by the write of
\* resetDailyUsage, never by the write of a usage tick.
C37_UsageLoweredOnlyByReset ==
    [][\A u \in Uids :
          (OrZero(dbUsers'[u].todayUsage) < OrZero(dbUsers[u].todayUsage)) =>
              (usageWrite # None /\ Get(usageWrite).value = 0)]_vars

(***************************************************************************)
(* Properties of the operations without a user.                            *)
(***************************************************************************)
\* The dashboard of A with chat 1 open, which holds a message of B: the
\* subscriptions of useChat and of useChats are open and their first
\* snapshots await delivery.
InitGate ==
    /\ now = 1
    /\ user = "A"
    /\ userProfile = Some(InitialProfile(user, "Alice"))
    /\ chatId = 1
    /\ dbMessages = [c \in ChatIds |-> [k \in MsgIds |->
                        IF c = 1 /\ k = 1 THEN PeerMessage(1) ELSE NoMsg]]
    /\ dbChats = [c \in ChatIds |-> IF c = 1 THEN DirectChat("A", "B", 1) ELSE NoChatRec]
    /\ dbTyping = [c \in ChatIds |-> [u \in Uids |-> None]]
    /\ nextKey = 2
    /\ InitHook
    /\ dbUserChats = [u \in Uids |-> {1}]
    /\ nextChatKey = 2
    /\ idxSub = user
    /\ idxDirty = TRUE
    /\ runs = <<>>
    /\ chats = <<>>
    /\ chatsLoading = TRUE
    /\ create = IdleCreate
    /\ InitSessionIdle

\* A types, changes the profile, resets the usage and signs out; send,
\* delete and the two creations are called once the user is gone.
NextGate ==
    \/ MessagesSnapshot
    \/ HandleInputChange
    \/ TypingTimeout
    \/ TypingWriteAck
    \/ (user = NoUser /\ SendMessage(TextHello))
    \/ (user = NoUser /\ DeleteMessage(1))
    \/ (user = NoUser /\ CreateChat("B"))
    \/ (user = NoUser /\ CreateGroupChat(<<"B">>, "team"))
    \/ UpdateUserProfile(PartialLimit)
    \/ UpdateWriteRejected
    \/ ResetDailyUsage
    \/ UsageWriteRejected
    \/ Logout
    \/ LogoutSetStatus
    \/ LogoutSetLastSeen
    \/ LogoutSignOut
    \/ AuthStateChanged

SpecGate == InitGate /\ [][NextGate]_vars

\* C35: while no user is present no step issues a new store write, and the
\* subscriptions of the chat index, of the messages and of typing are closed.
C35_NoUserNoWritesNoSubscriptions ==
    /\ []((user = NoUser) => (msgSub = NoChat /\ idxSub = NoUser))
    /\ [][(user = NoUser) => (Len(writeQueue') <= Len(writeQueue))]_vars

(***************************************************************************)
(* Properties of the values published across a change of chat.             *)
(***************************************************************************)
\* C36: the message list published for the selected chat holds messages of
\* that chat only, and right after a change of chat the published typing ids
\* are ids typing in the newly selected chat.
C36_NothingOfPreviousChat ==
    /\ []((chatId # NoChat) =>
              (\A i \in DOMAIN messages : MsgExists(chatId, messages[i].id)))
    /\ [][(chatId' # chatId /\ chatId' # NoChat) =>
              (isTyping' \subseteq TypingOthers(dbTyping[chatId'], user))]_vars

(***************************************************************************)
(* Properties of the loading flag of AuthProvider.                         *)
(***************************************************************************)
\* The provider delivers every auth state and the store answers the online
\* write, by an acknowledgement or by a rejection.
SpecAuthFair ==
    /\ SpecAuth
    /\ WF_vars(AuthStateChanged)
    /\ WF_vars(PresenceSetOnline \/ PresenceWriteRejected)

\* C38: an auth state awaiting delivery leads to loading = false, with a
\* user and without one, whatever the answer to the online write.
C38_LoadingEventuallyFalse == authPending ~> ~authLoading

(***************************************************************************)
(* Properties of submits made during a send.                               *)
(***************************************************************************)
\* handleSend of ChatView, submits of a text that is not blank while its send
\* is in flight, the steps of the send and the message subscription.
NextSubmit ==
    \/ Tick
    \/ MessagesSnapshot
    \/ \E text \in Texts : HandleSend(text)
    \/ HandleSendDuringSend(TextHello)
    \/ SendSetMessage
    \/ SendSetLastMessage
    \/ SendSetLastMessageTime
    \/ SendClearTyping
    \/ SendWriteRejected

SpecSubmit == InitObserve /\ [][NextSubmit]_vars

\* C39: no second call of sendMessage is made while the send of handleSend
\* is in flight: a submit in that time pushes no key and issues no write, and
\* a message record appears under the key of the one send in flight only.
C39_OneSendInFlight ==
    /\ [](~send.overlap)
    /\ [][(send.pc # "idle" /\ send.handler) =>
             (nextKey' = nextKey /\ Len(writeQueue') <= Len(writeQueue))]_vars
    /\ [][\A k \in MsgIds :
             (~MsgExists(1, k) /\ MsgExists(1, k)') => (send.pc = "setMessage" /\ k = send.key)]_vars

\* A submit was refused while the send had stored its message and went on.
C39_Witness ==
    /\ send.refused
    /\ send.pc = "setLastMessage"
    /\ MsgExists(1, send.key)

====
